---- MODULE Spec2Model ----
(***************************************************************************)
(* Model of the Orca actuator driver's motion control:                     *)
(*   src/main.py                      handle_state_change                  *)
(*   src/bytemachine/lib_bytemachine  configure_two_point_kinematic_motion *)
(*   src/orca/actuator.py             register reads/writes, slot writes   *)
(*   src/orca/bit_utils.py            16-bit word splitting                *)
(* Every await of the code is one step: the exchange on the link, the      *)
(* device's reaction and the code that runs up to the next await.  The     *)
(* actuator is a second process that advances its active motion slot.      *)
(* Python values: True/False/None are the strings "True"/"False"/"None";   *)
(* a failed read (None) of an integer is NoneInt.                          *)
(***************************************************************************)
EXTENDS Integers, Sequences, FiniteSets, TLC

\* ---------------------------------------------------------------- bounds

\* Top-level calls (handle_state_change or configure) per behaviour.
MaxCalls == 2
\* KINEMATIC_STATUS stream reads that configure may see answered with an
\* error response before the transport answers or breaks.
MaxStatusReads == 1
\* Mode reads of one auto_zero_wait call that are counted; the loop itself
\* is not bounded, the count stops growing here.
MaxPolls == 3
\* Half-width of the windows of i32 values the word splitting is run on,
\* around the i32 limits, around 0 and around +-2^16.
BitsSpan == 12

\* ------------------------------------------------------------- constants

MODE_SLEEP == 1
MODE_POSITION == 3
MODE_KINEMATIC == 5
MODE_AUTO_ZERO == 55
MODE_OF_OPERATION == 317
CTRL_REG_1 == 1
CTRL_REG_1_SET_POSITION_CONTROLLER_GAIN == 1024
CTRL_REG_3 == 3
CTRL_REG_4 == 4
CTRL_REG_4_SET_DEFAULT_MOTOR_USER_OPTS == 4
CTRL_REG_4_SET_DEFAULT_MODBUS_USER_OPTS == 8
PC_PGAIN == 133
KIN_SW_TRIGGER == 9
KIN_MOTION_0 == 780
KINEMATIC_STATUS == 319
KIN_HOME_ID == 972
ZERO_MODE == 171
AUTO_ZERO_FORCE_N == 172
AUTO_ZERO_EXIT_MODE == 173
AUTO_ZERO_MODE_ENABLED == 2
MIN_STROKE_LENGTH_MM == 20
MIN_STROKE_RATE_MM_S == 20
MAX_STROKE_LENGTH_MM == 228
MAX_STROKE_RATE_MM_S == 676
STROKE_LENGTH_INCREMENT_MM == 20
STROKE_RATE_INCREMENT_MM_S == 20

\* None where the code holds an int or None.
NoneInt == -1

\* Registers per kinematic motion slot (the stride 6 of set_kinematic_motion).
SlotRegs == 6

\* The slots the two-point motion uses, and the registers the model keeps.
SlotIds == 0 .. 3
Addr ==
    {CTRL_REG_3, KIN_SW_TRIGGER, MODE_OF_OPERATION, KINEMATIC_STATUS}
        \cup (KIN_MOTION_0 .. (KIN_MOTION_0 + SlotRegs * 4 - 1))

\* Outcomes of one exchange: an answer, a Modbus exception response
\* (isError), no answer at all (ModbusIOException).
Outcomes == {"ok", "exception", "io_error"}

\* Inputs.
Rates == {0, 20}
Lengths == {0, 50}
InitModes == {MODE_SLEEP, MODE_POSITION, MODE_KINEMATIC}
InitStatus == {0, 3, 32767, 32768 + 1}

\* ------------------------------------------------------------- bit_utils

Pow16 == 65536
Pow15 == 32768

\* np.int32(x): x wrapped to 32 bits, on its 16-bit halves
ToInt32(x) ==
    ((((x \div Pow16) + Pow15) % Pow16) - Pow15) * Pow16 + (x % Pow16)

\* np.bitwise_and([value], [0xFFFF])
get_lsb(value) == value % Pow16

\* Mutant: the high word by a division that truncates towards zero.
get_msb_towards_zero(value) ==
    IF value >= 0 \/ value % Pow16 = 0 THEN value \div Pow16 ELSE (value \div Pow16) + 1

\* np.right_shift(value, 16): arithmetic shift
get_msb(value) == value \div Pow16

\* (high * (1 << 16)) + low
combine_low_high(low, high) == high * Pow16 + low

RECURSIVE BitOr(_, _)
BitOr(a, b) ==
    IF a = 0 THEN b
    ELSE IF b = 0 THEN a
    ELSE (IF a % 2 = 1 \/ b % 2 = 1 THEN 1 ELSE 0) + 2 * BitOr(a \div 2, b \div 2)

\* ---------------------------------------------------------- Python values

Truthy(v) == v = "True"

\* a and b
PyAnd(a, b) == IF Truthy(a) THEN b ELSE a

Max(a, b) == IF a >= b THEN a ELSE b

\* int(a / b) for b > 0: truncation towards zero
IntDiv(a, b) == IF a >= 0 THEN a \div b ELSE -((-a) \div b)

\* ------------------------------------------------- actuator.py: exchanges

\* Mutant: a failed read is taken for an answered one.
ReadResult_ignores_failure(outcome, value) == value

\* read_register: the registers, or None
ReadResult(outcome, value) == IF outcome = "ok" THEN value ELSE NoneInt

\* write_register / write_registers: True on an acknowledged write
WriteResult(outcome) == IF outcome = "ok" THEN "True" ELSE "False"

\* Mutant: the next id shifted by two bits, into the motion type's field.
next_type_auto_short_shift(motion_type, next_id, auto_start_next) ==
    BitOr(BitOr(motion_type * 2, next_id * 4), auto_start_next)

\* Mutant: the low word of the settling time once more, in the high word's
\* place.
settling_time_high_duplicates_low(settling_time_ms) == get_lsb(ToInt32(settling_time_ms))

\* set_kinematic_motion: the six register values of a slot
next_type_auto(motion_type, next_id, auto_start_next) ==
    BitOr(BitOr(motion_type * 2, next_id * 8), auto_start_next)

settling_time_high(settling_time_ms) == get_msb(ToInt32(settling_time_ms))

SlotValues(target_um, settling_ms, delay_ms, next_id, motion_type, auto_start_next) ==
    << get_lsb(ToInt32(target_um)),
       get_msb(ToInt32(target_um)),
       get_lsb(ToInt32(settling_ms)),
       settling_time_high(settling_ms),
       delay_ms,
       next_type_auto(motion_type, next_id, auto_start_next) >>

\* Mutant: the slot index is added without the stride.
SlotAddress_without_stride(motion_id) == KIN_MOTION_0 + motion_id

\* set_kinematic_motion: the first register of slot motion_id
SlotAddress(motion_id) == KIN_MOTION_0 + SlotRegs * motion_id

\* ------------------------------------- lib_bytemachine.py: pure decisions

settling_time_ms(stroke_rate_mm_s, stroke_length_mm) ==
    Max(IntDiv(stroke_length_mm * 1000, stroke_rate_mm_s), 0)

position_target_start_um(stroke_start_offset_mm) ==
    Max(stroke_start_offset_mm * 1000, 0)

position_target_end_um(stroke_length_mm, stroke_start_offset_mm) ==
    Max(stroke_length_mm * 1000 + stroke_start_offset_mm * 1000, 0)

\* kin_status.register_value & 0x7FFF
active_motion_id(register_value) == register_value % Pow15

\* Mutant: slot 1 is not taken for a slot of the pair {0,1}.
motion_out_id_only_zero(active) == IF active = 0 THEN 2 ELSE 0

\* lines 59-64
motion_out_id(active) == IF active = 0 \/ active = 1 THEN 2 ELSE 0

\* Mutant: the inbound slot of the pair {0,1} is taken for that of {2,3}.
motion_in_id_always_three(active) == 3

\* lines 60-64
motion_in_id(active) == IF active = 0 \/ active = 1 THEN 3 ELSE 1

\* Mutant: slot 3 is not taken for an inbound slot.
motion_to_trigger_id_only_one(active) ==
    IF active = 1 THEN motion_in_id(active) ELSE motion_out_id(active)

\* Mutant: the trigger names slot 0 whatever pair was written.
motion_to_trigger_id_zero(active) == 0

\* lines 65-67
motion_to_trigger_id(active) ==
    IF active = 1 \/ active = 3 THEN motion_in_id(active) ELSE motion_out_id(active)

\* ----------------------------------------------- main.py: pure decisions

\* not bool((kinematic_status[0] & 0x8000) >> 15)
should_trigger_motion(status) == (status \div Pow15) % 2 = 0

\* main.py:64-66
NeedsSleep(current_mode, rate, length) ==
    /\ current_mode # NoneInt /\ current_mode # 0
    /\ (length = 0 \/ rate = 0)
    /\ current_mode # MODE_SLEEP

\* main.py:69-71
NeedsKinematic(current_mode, rate, length) ==
    /\ current_mode # NoneInt /\ current_mode # 0
    /\ (length > 0 \/ rate > 0)
    /\ current_mode # MODE_KINEMATIC

\* ------------------------------------------------------------------ state

VARIABLES
    regs,    \* the actuator's holding registers, by address
    pc,      \* the await the driver is at
    hsc,     \* locals of handle_state_change
    cfg,     \* locals of configure_two_point_kinematic_motion
    log,     \* the exchanges of the current top-level call, in order
    ncalls,  \* top-level calls so far
    az,      \* locals of auto_zero_wait and command_auto_zero
    lnk,     \* the last call of a register or custom-frame operation
    bits,    \* the last bit_utils computation
    calc,    \* the last computation of configure or of set_kinematic_motion
    frame,   \* the custom frame being encoded and decoded
    mn       \* main(): its task, the key queue and the link

vars == << regs, pc, hsc, cfg, log, ncalls, az, lnk, bits, calc, frame, mn >>

\* What each specification leaves alone: the motion control never touches
\* the auto-zero, link and bit_utils state, and so on.
NotMotion == << az, lnk, bits, calc, frame, mn >>
NotAutoZero == << hsc, cfg, lnk, bits, calc, frame, mn >>
NotLink == << pc, hsc, cfg, log, az, bits, calc, frame, mn >>
NotBits == << regs, pc, hsc, cfg, log, ncalls, az, lnk, calc, frame, mn >>
NotCalc == << regs, pc, hsc, cfg, log, ncalls, az, lnk, bits, frame, mn >>
NotFrame == << regs, pc, hsc, cfg, log, ncalls, az, lnk, bits, calc, mn >>
NotMain == << regs, pc, hsc, cfg, log, ncalls, az, lnk, bits, calc, frame >>

HscIdle ==
    [ stroke_rate_mm_s |-> 0,
      stroke_length_mm |-> 0,
      current_mode |-> NoneInt,
      kinematic_status |-> NoneInt,
      should_trigger_motion |-> FALSE,
      success |-> "True",
      returns |-> << >> ]

CfgIdle ==
    [ stroke_rate_mm_s |-> 0,
      stroke_length_mm |-> 0,
      stroke_start_offset_mm |-> 0,
      settling_time_ms |-> 0,
      position_target_start_um |-> 0,
      position_target_end_um |-> 0,
      active_motion_id |-> NoneInt,
      motion_out_id |-> NoneInt,
      motion_in_id |-> NoneInt,
      motion_to_trigger_id |-> NoneInt,
      set_motion_out_successful |-> "None",
      set_motion_in_successful |-> "None",
      failed_reads |-> 0,
      log_start |-> 0,
      returned |-> "pending" ]

\* auto_zero_wait before it is called.
AzIdle ==
    [ max_force_n |-> 0,
      exit_to_mode |-> 0,
      write_successful |-> "None",
      initiate_auto_zero_successful |-> "None",
      mode |-> NoneInt,
      polls |-> 0,
      returned |-> "pending" ]

\* No register or custom-frame operation called yet.
LnkNoCall == [ op |-> "none", outcome |-> "ok", returns |-> "None" ]
LnkIdle ==
    [ op |-> "none", address |-> 0, outcome |-> "ok", returns |-> "None",
      registers |-> << >>, prev |-> LnkNoCall ]

\* No bit_utils computation made yet.
BitsIdle == [ op |-> "none", value |-> 0, low |-> 0, high |-> 0, combined |-> 0 ]

\* Nothing computed yet.
CalcIdle == [ op |-> "none" ]

\* No frame object constructed yet.
FrameIdle == [ op |-> "none" ]

\* main() before it runs.
MainIdle == [ pc |-> "not_started" ]

\* configure_two_point_kinematic_motion up to its first await (lines 43-50)
CfgEntry(rate, length, offset, start) ==
    [ CfgIdle EXCEPT
        !.stroke_rate_mm_s = rate,
        !.stroke_length_mm = length,
        !.stroke_start_offset_mm = offset,
        !.settling_time_ms = settling_time_ms(rate, length),
        !.position_target_start_um = position_target_start_um(offset),
        !.position_target_end_um = position_target_end_um(length, offset),
        !.log_start = start ]

\* ----------------------------------------------------------- the actuator

\* The active slot id and the motion-in-progress bit of KINEMATIC_STATUS.
LiveSlot(r) == r[KINEMATIC_STATUS] % Pow15
InMotion(r) == r[KINEMATIC_STATUS] \div Pow15 = 1

\* The fields of a slot's sixth register.
SlotNextId(r, s) == (r[SlotAddress(s) + 5] \div 8) % 32
SlotMotionType(r, s) == (r[SlotAddress(s) + 5] \div 2) % 4
SlotAutoStartNext(r, s) == r[SlotAddress(s) + 5] % 2
SlotTarget(r, s) == combine_low_high(r[SlotAddress(s)], r[SlotAddress(s) + 1])
SlotSettling(r, s) == combine_low_high(r[SlotAddress(s) + 2], r[SlotAddress(s) + 3])
SlotDelay(r, s) == r[SlotAddress(s) + 4]

\* An acknowledged write of vals at addr .. addr + Len(vals) - 1.  A write of
\* the mode control register sets the mode of operation; a software trigger
\* starts the named slot when the actuator is in kinematic mode.
DeviceWrite(r, addr, vals) ==
    LET w == [a \in Addr |->
                IF a >= addr /\ a < addr + Len(vals) THEN vals[a - addr + 1] ELSE r[a]]
    IN  IF addr = CTRL_REG_3
        THEN [w EXCEPT ![MODE_OF_OPERATION] = vals[1]]
        ELSE IF addr = KIN_SW_TRIGGER /\ r[MODE_OF_OPERATION] = MODE_KINEMATIC
        THEN [w EXCEPT ![KINEMATIC_STATUS] = vals[1] + Pow15]
        ELSE w

\* The registers after a write exchange with this outcome.
Written(outcome, addr, vals) ==
    IF outcome = "ok" THEN DeviceWrite(regs, addr, vals) ELSE regs

\* The log with one more exchange.
Logged(op, addr, vals, outcome) ==
    Append(log, [ op |-> op, addr |-> addr, vals |-> vals, ok |-> outcome = "ok" ])

\* The running motion ends: the actuator starts the slot's nextId when the
\* slot auto-starts its successor, and stops otherwise.
ActuatorAdvance ==
    /\ regs[MODE_OF_OPERATION] = MODE_KINEMATIC
    /\ InMotion(regs)
    /\ LET s == LiveSlot(regs)
       IN  regs' = [regs EXCEPT ![KINEMATIC_STATUS] =
                      IF s \in SlotIds /\ SlotAutoStartNext(regs, s) = 1
                      THEN SlotNextId(regs, s) + Pow15
                      ELSE s]
    /\ UNCHANGED << pc, hsc, cfg, log, ncalls >>
    /\ UNCHANGED NotMotion

Init ==
    /\ \E m \in InitModes, st \in InitStatus :
         regs = [a \in Addr |->
                   IF a = CTRL_REG_3 \/ a = MODE_OF_OPERATION THEN m
                   ELSE IF a = KINEMATIC_STATUS THEN st
                   ELSE 0]
    /\ pc = "idle"
    /\ hsc = HscIdle
    /\ cfg = CfgIdle
    /\ log = << >>
    /\ ncalls = 0
    /\ az = AzIdle
    /\ lnk = LnkIdle
    /\ bits = BitsIdle
    /\ calc = CalcIdle
    /\ frame = FrameIdle
    /\ mn = MainIdle

\* --------------------------------------- main.py: handle_state_change

\* Where handle_state_change goes once the mode is settled: into configure,
\* called with the stroke values raised to their minimums (lines 73-81).
result_stroke_rate_mm_s(rate) == Max(rate, MIN_STROKE_RATE_MM_S)
result_stroke_length_mm(length) == Max(length, MIN_STROKE_LENGTH_MM)
HscStrokeStartOffsetMm == 35

HscCfgEntry(h, start) ==
    CfgEntry(result_stroke_rate_mm_s(h.stroke_rate_mm_s),
             result_stroke_length_mm(h.stroke_length_mm),
             HscStrokeStartOffsetMm, start)

\* Mutant: the mode is set to Kinematic after the motion is programmed.
AfterConfigure_mode_last(h) ==
    IF h.current_mode # MODE_KINEMATIC /\ h.success # "None"
    THEN "hsc_set_kinematic"
    ELSE "hsc_return"

\* lines 84-86: the await that follows configure
AfterConfigure(h) == IF h.should_trigger_motion THEN "hsc_trigger" ELSE "hsc_return"

\* A caller invokes handle_state_change(actuator, rate, length).
CallHandleStateChange ==
    /\ pc = "idle"
    /\ ncalls < MaxCalls
    /\ \E rate \in Rates, length \in Lengths :
         hsc' = [HscIdle EXCEPT !.stroke_rate_mm_s = rate,
                                !.stroke_length_mm = length]
    /\ pc' = "hsc_get_mode"
    /\ ncalls' = ncalls + 1
    /\ log' = << >>
    /\ cfg' = CfgIdle
    /\ UNCHANGED regs
    /\ UNCHANGED NotMotion

\* line 57: current_mode = await actuator.get_mode()
HscGetMode ==
    /\ pc = "hsc_get_mode"
    /\ \E outcome \in Outcomes :
         /\ hsc' = [hsc EXCEPT !.current_mode =
                                  ReadResult(outcome, regs[MODE_OF_OPERATION])]
         /\ log' = Logged("read", MODE_OF_OPERATION, << >>, outcome)
    /\ pc' = "hsc_read_status"
    /\ UNCHANGED << regs, cfg, ncalls >>
    /\ UNCHANGED NotMotion

\* lines 58-66, 69-71: the KINEMATIC_STATUS read, the early return, and the
\* choice of the next await.
HscReadStatus ==
    /\ pc = "hsc_read_status"
    /\ \E outcome \in Outcomes :
         LET status == ReadResult(outcome, regs[KINEMATIC_STATUS])
             h == [hsc EXCEPT !.kinematic_status = status]
         IN  /\ log' = Logged("read", KINEMATIC_STATUS, << >>, outcome)
             /\ IF status = NoneInt
                THEN /\ hsc' = [h EXCEPT !.returns = << 0, 0 >>]
                     /\ pc' = "hsc_return"
                     /\ cfg' = cfg
                ELSE /\ hsc' = [h EXCEPT !.should_trigger_motion =
                                            should_trigger_motion(status),
                                         !.success = "True"]
                     /\ IF NeedsSleep(h.current_mode, h.stroke_rate_mm_s,
                                      h.stroke_length_mm)
                        THEN pc' = "hsc_set_sleep" /\ cfg' = cfg
                        ELSE IF NeedsKinematic(h.current_mode, h.stroke_rate_mm_s,
                                               h.stroke_length_mm)
                        THEN pc' = "hsc_set_kinematic" /\ cfg' = cfg
                        ELSE pc' = "cfg_read_status" /\ cfg' = HscCfgEntry(h, Len(log'))
    /\ UNCHANGED << regs, ncalls >>
    /\ UNCHANGED NotMotion

\* lines 67-68: success = await actuator.set_mode(MODE_SLEEP) and success
HscSetSleep ==
    /\ pc = "hsc_set_sleep"
    /\ \E outcome \in Outcomes :
         /\ regs' = Written(outcome, CTRL_REG_3, << MODE_SLEEP >>)
         /\ log' = Logged("write", CTRL_REG_3, << MODE_SLEEP >>, outcome)
         /\ hsc' = [hsc EXCEPT !.success = PyAnd(WriteResult(outcome), @),
                               !.should_trigger_motion = FALSE]
    /\ IF NeedsKinematic(hsc.current_mode, hsc.stroke_rate_mm_s, hsc.stroke_length_mm)
       THEN pc' = "hsc_set_kinematic" /\ cfg' = cfg
       ELSE pc' = "cfg_read_status" /\ cfg' = HscCfgEntry(hsc, Len(log'))
    /\ UNCHANGED ncalls
    /\ UNCHANGED NotMotion

\* line 72: success = await actuator.set_mode(MODE_KINEMATIC) and success
HscSetKinematic ==
    /\ pc = "hsc_set_kinematic"
    /\ \E outcome \in Outcomes :
         /\ regs' = Written(outcome, CTRL_REG_3, << MODE_KINEMATIC >>)
         /\ log' = Logged("write", CTRL_REG_3, << MODE_KINEMATIC >>, outcome)
         /\ hsc' = [hsc EXCEPT !.success = PyAnd(WriteResult(outcome), @)]
    /\ pc' = "cfg_read_status"
    /\ cfg' = HscCfgEntry(hsc, Len(log'))
    /\ UNCHANGED ncalls
    /\ UNCHANGED NotMotion

\* lines 84-85: success = await actuator.trigger_kinematic_motion(0) and success
HscTrigger ==
    /\ pc = "hsc_trigger"
    /\ \E outcome \in Outcomes :
         /\ regs' = Written(outcome, KIN_SW_TRIGGER, << 0 >>)
         /\ log' = Logged("write", KIN_SW_TRIGGER, << 0 >>, outcome)
         /\ hsc' = [hsc EXCEPT !.success = PyAnd(WriteResult(outcome), @),
                               !.returns = << result_stroke_rate_mm_s(hsc.stroke_rate_mm_s),
                                              result_stroke_length_mm(hsc.stroke_length_mm) >>]
    /\ pc' = "hsc_return"
    /\ UNCHANGED << cfg, ncalls >>
    /\ UNCHANGED NotMotion

\* lines 60, 86: handle_state_change returns its tuple.
HscReturn ==
    /\ pc = "hsc_return"
    /\ pc' = "idle"
    /\ hsc' = HscIdle
    /\ cfg' = CfgIdle
    /\ log' = << >>
    /\ UNCHANGED << regs, ncalls >>
    /\ UNCHANGED NotMotion

\* ------------- lib_bytemachine.py: configure_two_point_kinematic_motion

\* lines 52-65: one turn of the while loop up to the first slot write.  An
\* error response makes motor_read_stream return None and the loop reads
\* again; a ModbusIOException of client.execute is not caught.
CfgReadStatus ==
    /\ pc = "cfg_read_status"
    /\ \E outcome \in Outcomes :
         /\ outcome = "exception" => cfg.failed_reads < MaxStatusReads
         /\ log' = Logged("read_stream", KINEMATIC_STATUS, << >>, outcome)
         /\ IF outcome = "ok"
            THEN LET active == active_motion_id(regs[KINEMATIC_STATUS])
                 IN  /\ cfg' = [cfg EXCEPT
                                  !.active_motion_id = active,
                                  !.motion_out_id = motion_out_id(active),
                                  !.motion_in_id = motion_in_id(active),
                                  !.motion_to_trigger_id = motion_to_trigger_id(active)]
                     /\ pc' = "cfg_set_out"
            ELSE IF outcome = "exception"
            THEN /\ cfg' = [cfg EXCEPT !.failed_reads = @ + 1]
                 /\ pc' = "cfg_read_status"
            ELSE /\ cfg' = cfg
                 /\ pc' = "raised"
    /\ UNCHANGED << regs, hsc, ncalls >>
    /\ UNCHANGED NotMotion

\* The write exchange of set_kinematic_motion for the outbound slot.
OutWrite ==
    [ addr |-> SlotAddress(cfg.motion_out_id),
      vals |-> SlotValues(cfg.position_target_end_um, cfg.settling_time_ms, 0,
                          cfg.motion_in_id, 1, 1) ]

\* Mutant: the inbound slot names itself as its successor.
InWrite_self_loop ==
    [ addr |-> SlotAddress(cfg.motion_in_id),
      vals |-> SlotValues(cfg.position_target_start_um, cfg.settling_time_ms, 0,
                          cfg.motion_in_id, 1, 1) ]

\* The write exchange of set_kinematic_motion for the inbound slot.
InWrite ==
    [ addr |-> SlotAddress(cfg.motion_in_id),
      vals |-> SlotValues(cfg.position_target_start_um, cfg.settling_time_ms, 0,
                          cfg.motion_out_id, 1, 1) ]

\* lines 66-74: set_motion_out_successful = await set_kinematic_motion(...)
CfgSetOut ==
    /\ pc = "cfg_set_out"
    /\ \E outcome \in Outcomes :
         /\ regs' = Written(outcome, OutWrite.addr, OutWrite.vals)
         /\ log' = Logged("write", OutWrite.addr, OutWrite.vals, outcome)
         /\ cfg' = [cfg EXCEPT !.set_motion_out_successful = WriteResult(outcome)]
    /\ pc' = "cfg_set_in"
    /\ UNCHANGED << hsc, ncalls >>
    /\ UNCHANGED NotMotion

\* lines 76-84: set_motion_in_successful = await set_kinematic_motion(...)
CfgSetIn ==
    /\ pc = "cfg_set_in"
    /\ \E outcome \in Outcomes :
         /\ regs' = Written(outcome, InWrite.addr, InWrite.vals)
         /\ log' = Logged("write", InWrite.addr, InWrite.vals, outcome)
         /\ cfg' = [cfg EXCEPT !.set_motion_in_successful = WriteResult(outcome)]
    /\ pc' = "cfg_trigger"
    /\ UNCHANGED << hsc, ncalls >>
    /\ UNCHANGED NotMotion

\* The value configure hands back: lines 93-94 are break and a bare return.
CfgReturnValue(out_ok, in_ok, trigger_ok) == "None"

\* lines 92-94: await actuator.trigger_kinematic_motion(motion_to_trigger_id)
CfgTrigger ==
    /\ pc = "cfg_trigger"
    /\ \E outcome \in Outcomes :
         /\ regs' = Written(outcome, KIN_SW_TRIGGER, << cfg.motion_to_trigger_id >>)
         /\ log' = Logged("write", KIN_SW_TRIGGER, << cfg.motion_to_trigger_id >>, outcome)
         /\ cfg' = [cfg EXCEPT !.returned =
                      CfgReturnValue(cfg.set_motion_out_successful,
                                     cfg.set_motion_in_successful,
                                     WriteResult(outcome))]
    /\ pc' = "cfg_return"
    /\ UNCHANGED << hsc, ncalls >>
    /\ UNCHANGED NotMotion

\* configure returns to handle_state_change (main.py lines 75-86):
\* success = configure(...) and success, then the trigger of slot 0 or the
\* return.
CfgReturn ==
    /\ pc = "cfg_return"
    /\ pc' = AfterConfigure(hsc)
    /\ IF pc' # "hsc_return"
       THEN hsc' = [hsc EXCEPT !.success = PyAnd(cfg.returned, @)]
       ELSE hsc' = [hsc EXCEPT
                         !.success = PyAnd(cfg.returned, @),
                         !.returns = << result_stroke_rate_mm_s(hsc.stroke_rate_mm_s),
                                        result_stroke_length_mm(hsc.stroke_length_mm) >>]
    /\ UNCHANGED << regs, cfg, log, ncalls >>
    /\ UNCHANGED NotMotion

\* A ModbusIOException leaves configure and handle_state_change: neither
\* catches it.
Raised ==
    /\ pc = "raised"
    /\ pc' = "idle"
    /\ hsc' = HscIdle
    /\ cfg' = CfgIdle
    /\ log' = << >>
    /\ UNCHANGED << regs, ncalls >>
    /\ UNCHANGED NotMotion

\* ---------------------------------------------------------- specification

Next ==
    \/ CallHandleStateChange
    \/ HscGetMode
    \/ HscReadStatus
    \/ HscSetSleep
    \/ HscSetKinematic
    \/ CfgReadStatus
    \/ CfgSetOut
    \/ CfgSetIn
    \/ CfgTrigger
    \/ CfgReturn
    \/ HscTrigger
    \/ HscReturn
    \/ Raised
    \/ ActuatorAdvance

Spec == Init /\ [][Next]_vars

\* ------------------------------------------------- reading the exchanges

IsSlotWrite(e) ==
    e.op = "write" /\ e.addr >= KIN_MOTION_0 /\ e.addr < KIN_MOTION_0 + SlotRegs * 32
IsTriggerWrite(e) == e.op = "write" /\ e.addr = KIN_SW_TRIGGER
IsModeWrite(e) == e.op = "write" /\ e.addr = CTRL_REG_3
IsStatusStreamRead(e) == e.op = "read_stream" /\ e.addr = KINEMATIC_STATUS

\* The slot a slot write starts in.
SlotOf(e) == (e.addr - KIN_MOTION_0) \div SlotRegs

\* The pair of the double buffer that holds slot id, if any.
PairOf(id) == IF id \in {0, 1} THEN {0, 1} ELSE IF id \in {2, 3} THEN {2, 3} ELSE {}

\* configure is being executed (or has just raised).
InConfigure ==
    pc \in {"cfg_read_status", "cfg_set_out", "cfg_set_in", "cfg_trigger",
            "cfg_return", "raised"}

\* The exchanges configure has made in the current call.
CfgLog == IF InConfigure THEN SubSeq(log, cfg.log_start + 1, Len(log)) ELSE << >>

\* configure has made its last exchange and is about to return.
CfgDone == pc = "cfg_return"

\* At CfgDone the last three exchanges, in the order of the code.
OutEntry == log[Len(log) - 2]
InEntry == log[Len(log) - 1]
TriggerEntry == log[Len(log)]

\* ------------------------------- lib_bytemachine.py: auto_zero_wait

\* The registers the auto-zero model keeps.
AzAddr ==
    {CTRL_REG_3, MODE_OF_OPERATION, ZERO_MODE, AUTO_ZERO_FORCE_N, AUTO_ZERO_EXIT_MODE}

\* Inputs: the force limit (50 is the default) and the mode to exit to.
DefaultMaxForceN == 50
MaxForces == {DefaultMaxForceN, 100}
ExitModes == {MODE_SLEEP, MODE_POSITION, MODE_KINEMATIC}

\* Mutant: one acknowledged write is enough.
BoolAnd_either(a, b) == IF a = "True" \/ b = "True" THEN "True" ELSE "False"

\* a & b on Python bools (command_auto_zero returns the & of its two writes).
BoolAnd(a, b) == IF a = "True" /\ b = "True" THEN "True" ELSE "False"

\* Mutant: only the mode write decides.
command_auto_zero_returns_mode_write_only(mode_write, write_successful) == mode_write

\* actuator.py 445-450: what command_auto_zero returns.
command_auto_zero_returns(mode_write, write_successful) ==
    BoolAnd(mode_write, write_successful)

\* Mutant: get_mode hands back a mode also when its read failed.
get_mode_never_none(outcome, r) == r[MODE_OF_OPERATION]

\* actuator.py 158-171: get_mode returns the register read, None on failure.
get_mode(outcome, r) == ReadResult(outcome, r[MODE_OF_OPERATION])

\* Mutants: the poll loop is left on any answer / on no answer.
PollExit_on_any_mode(mode) == TRUE
PollExit_never(mode) == FALSE

\* lib_bytemachine.py 130-131: the poll loop is left on a mode other than
\* MODE_AUTO_ZERO.
PollExit(mode) == mode # MODE_AUTO_ZERO

\* An acknowledged write in the auto-zero model: a write of the mode control
\* register sets the mode of operation.
AzDeviceWrite(r, addr, vals) ==
    LET w == [a \in AzAddr |->
                IF a >= addr /\ a < addr + Len(vals) THEN vals[a - addr + 1] ELSE r[a]]
    IN  IF addr = CTRL_REG_3 THEN [w EXCEPT ![MODE_OF_OPERATION] = vals[1]] ELSE w

AzWritten(outcome, addr, vals) ==
    IF outcome = "ok" THEN AzDeviceWrite(regs, addr, vals) ELSE regs

InitAutoZero ==
    /\ \E m \in InitModes, x \in ExitModes :
         regs = [a \in AzAddr |->
                   IF a = CTRL_REG_3 \/ a = MODE_OF_OPERATION THEN m
                   ELSE IF a = AUTO_ZERO_EXIT_MODE THEN x
                   ELSE 0]
    /\ pc = "idle"
    /\ hsc = HscIdle
    /\ cfg = CfgIdle
    /\ log = << >>
    /\ ncalls = 0
    /\ az = AzIdle
    /\ lnk = LnkIdle
    /\ bits = BitsIdle
    /\ calc = CalcIdle
    /\ frame = FrameIdle
    /\ mn = MainIdle

\* A caller invokes auto_zero_wait(actuator, max_force_n, exit_to_mode).
CallAutoZeroWait ==
    /\ pc = "idle"
    /\ ncalls < MaxCalls
    /\ \E force \in MaxForces, exit \in ExitModes :
         az' = [AzIdle EXCEPT !.max_force_n = force, !.exit_to_mode = exit]
    /\ pc' = "az_write_config"
    /\ ncalls' = ncalls + 1
    /\ log' = << >>
    /\ UNCHANGED regs
    /\ UNCHANGED NotAutoZero

\* actuator.py 441-444: the write of the auto-zero configuration registers.
AzWriteConfig ==
    /\ pc = "az_write_config"
    /\ \E outcome \in Outcomes :
         LET vals == << AUTO_ZERO_MODE_ENABLED, az.max_force_n, az.exit_to_mode >>
         IN  /\ regs' = AzWritten(outcome, ZERO_MODE, vals)
             /\ log' = Logged("write", ZERO_MODE, vals, outcome)
             /\ az' = [az EXCEPT !.write_successful = WriteResult(outcome)]
    /\ pc' = "az_write_mode"
    /\ UNCHANGED ncalls
    /\ UNCHANGED NotAutoZero

\* actuator.py 445-450 and lib_bytemachine.py 117-123: the write of the mode
\* control register, whatever the first write did, and the early return.
AzWriteMode ==
    /\ pc = "az_write_mode"
    /\ \E outcome \in Outcomes :
         LET started == command_auto_zero_returns(WriteResult(outcome), az.write_successful)
         IN  /\ regs' = AzWritten(outcome, CTRL_REG_3, << MODE_AUTO_ZERO >>)
             /\ log' = Logged("write", CTRL_REG_3, << MODE_AUTO_ZERO >>, outcome)
             /\ az' = [az EXCEPT !.initiate_auto_zero_successful = started,
                                 !.returned = IF Truthy(started) THEN "pending" ELSE "False"]
             /\ pc' = IF Truthy(started) THEN "az_poll" ELSE "az_return"
    /\ UNCHANGED ncalls
    /\ UNCHANGED NotAutoZero

\* lib_bytemachine.py 125-132: one round of the poll loop, its mode read
\* having this outcome.
AzPollWith(outcome) ==
    /\ pc = "az_poll"
    /\ LET mode == get_mode(outcome, regs)
       IN  /\ az' = [az EXCEPT !.mode = mode,
                               !.polls = IF az.polls < MaxPolls THEN az.polls + 1 ELSE az.polls,
                               !.returned = IF mode = NoneInt THEN "False"
                                            ELSE IF PollExit(mode) THEN "True"
                                            ELSE "pending"]
           /\ pc' = IF mode = NoneInt \/ PollExit(mode) THEN "az_return" ELSE "az_poll"
    /\ UNCHANGED << regs, log, ncalls >>
    /\ UNCHANGED NotAutoZero

AzPoll == \E outcome \in Outcomes : AzPollWith(outcome)

\* auto_zero_wait hands its value to the caller.
AzReturn ==
    /\ pc = "az_return"
    /\ pc' = "idle"
    /\ UNCHANGED << regs, log, ncalls, az >>
    /\ UNCHANGED NotAutoZero

\* The firmware finishes auto-zeroing and enters the configured exit mode.
AutoZeroCompletes ==
    /\ regs[MODE_OF_OPERATION] = MODE_AUTO_ZERO
    /\ regs' = [regs EXCEPT ![MODE_OF_OPERATION] = regs[AUTO_ZERO_EXIT_MODE]]
    /\ UNCHANGED << pc, log, ncalls, az >>
    /\ UNCHANGED NotAutoZero

NextAutoZero ==
    \/ CallAutoZeroWait
    \/ AzWriteConfig
    \/ AzWriteMode
    \/ AzPoll
    \/ AzReturn
    \/ AutoZeroCompletes

SpecAutoZero == InitAutoZero /\ [][NextAutoZero]_vars

\* The event loop keeps running the poll loop and the actuator keeps
\* answering it, and the firmware leaves the auto-zero mode once it has
\* entered it.
SpecAutoZeroFair ==
    /\ SpecAutoZero
    /\ WF_vars(AzPollWith("ok"))
    /\ WF_vars(AutoZeroCompletes)

\* The same without the firmware's progress.
SpecAutoZeroPollFair ==
    /\ SpecAutoZero
    /\ WF_vars(AzPollWith("ok"))

\* The writes of the current auto_zero_wait call.
IsConfigWrite(e) == e.op = "write" /\ e.addr = ZERO_MODE
IsAutoZeroModeWrite(e) == IsModeWrite(e) /\ e.vals = << MODE_AUTO_ZERO >>
AzDone == pc = "az_return"

\* ----------------------------------------------------------------- claims

\* C1: a slot write of configure_two_point_kinematic_motion never targets a
\* slot of the pair that holds the active motion id the call read, nor a slot
\* of the pair that holds the slot the actuator is executing at the moment of
\* the write, the actuator advancing along nextId meanwhile.
C1_DoubleBufferSafety ==
    [][ (Len(log') = Len(log) + 1 /\ IsSlotWrite(log'[Len(log')]))
          => /\ cfg.active_motion_id # NoneInt
             /\ SlotOf(log'[Len(log')]) \notin PairOf(cfg.active_motion_id)
             /\ SlotOf(log'[Len(log')]) \notin PairOf(LiveSlot(regs)) ]_vars

\* C1 witness: in a second call the outbound slot has been written while the
\* actuator, in motion, has moved on from the slot the call read.
C1_Witness ==
    /\ pc = "cfg_set_in"
    /\ ncalls = 2
    /\ InMotion(regs)
    /\ LiveSlot(regs) # cfg.active_motion_id
    /\ LiveSlot(regs) \in PairOf(cfg.active_motion_id)
    /\ IsSlotWrite(log[Len(log)]) /\ log[Len(log)].ok

\* C2: with the active id in {0,1} the slots written are 2 (outbound, first)
\* and 3 (inbound, second), with any other id they are 0 and 1; an active id
\* other than 1 and 3 makes the trigger carry the outbound slot id; id 0
\* gives the pair {2,3} and the trigger of slot 2.
C2_InactivePairAndOutboundTrigger ==
    CfgDone =>
        LET a == cfg.active_motion_id
        IN  /\ IsSlotWrite(OutEntry) /\ IsSlotWrite(InEntry) /\ IsTriggerWrite(TriggerEntry)
            /\ a \in {0, 1} => SlotOf(OutEntry) = 2 /\ SlotOf(InEntry) = 3
            /\ a \notin {0, 1} => SlotOf(OutEntry) = 0 /\ SlotOf(InEntry) = 1
            /\ a \notin {1, 3} => TriggerEntry.vals = << SlotOf(OutEntry) >>
            /\ a = 0 => TriggerEntry.vals = << 2 >>

\* C2 witness: configure read the active id 0 and triggered slot 2.
C2_Witness ==
    /\ CfgDone
    /\ cfg.active_motion_id = 0
    /\ SlotOf(OutEntry) = 2
    /\ TriggerEntry.vals = << 2 >>

\* C3: an inbound active slot (1 or 3) makes the trigger carry the inbound
\* slot id of the pair written, an odd id like the active one; id 3 gives the
\* pair {0,1} and the trigger of slot 1.
C3_InboundTriggerKeepsDirection ==
    (CfgDone /\ cfg.active_motion_id \in {1, 3}) =>
        /\ IsTriggerWrite(TriggerEntry)
        /\ TriggerEntry.vals = << SlotOf(InEntry) >>
        /\ SlotOf(InEntry) % 2 = cfg.active_motion_id % 2
        /\ SlotOf(InEntry) \notin PairOf(cfg.active_motion_id)
        /\ cfg.active_motion_id = 3 =>
             /\ SlotOf(OutEntry) = 0 /\ SlotOf(InEntry) = 1
             /\ TriggerEntry.vals = << 1 >>

\* C3 witness: configure read the active id 3 and triggered slot 1.
C3_Witness ==
    /\ CfgDone
    /\ cfg.active_motion_id = 3
    /\ TriggerEntry.vals = << 1 >>

\* C4: when both slot writes were acknowledged the two slots hold a closed
\* loop: outbound has the end target and names inbound, inbound has the start
\* target and names outbound, both with the call's settling time, motion type
\* 1 (min jerk), auto-start-next 1 and auto-start delay 0.
C4_ClosedTwoPointLoop ==
    (CfgDone /\ OutEntry.ok /\ InEntry.ok) =>
        LET o == SlotOf(OutEntry)
            i == SlotOf(InEntry)
        IN  /\ o # i
            /\ SlotTarget(regs, o) = cfg.position_target_end_um
            /\ SlotNextId(regs, o) = i
            /\ SlotTarget(regs, i) = cfg.position_target_start_um
            /\ SlotNextId(regs, i) = o
            /\ \A s \in {o, i} :
                 /\ SlotSettling(regs, s) = cfg.settling_time_ms
                 /\ SlotMotionType(regs, s) = 1
                 /\ SlotAutoStartNext(regs, s) = 1
                 /\ SlotDelay(regs, s) = 0

\* C4 witness: both slot writes acknowledged, for a stroke of 50 mm from 35 mm.
C4_Witness ==
    /\ CfgDone /\ OutEntry.ok /\ InEntry.ok
    /\ SlotTarget(regs, SlotOf(OutEntry)) = 85000
    /\ SlotTarget(regs, SlotOf(InEntry)) = 35000
    /\ SlotSettling(regs, SlotOf(InEntry)) = 2500

\* C5: the exchanges of a configure call are, in order, KINEMATIC_STATUS
\* reads, the outbound slot write, the inbound slot write, the trigger write;
\* at any moment they are a prefix of that, and a call that returns has made
\* exactly one trigger write, last, carrying one of the two slot ids written.
C5_ExchangeOrder ==
    LET l == CfgLog
        n == Len(l)
        reads == {k \in 1 .. n : IsStatusStreamRead(l[k])}
        r == Cardinality(reads)
    IN  /\ reads = 1 .. r
        /\ n <= r + 3
        /\ n >= r + 1 => r >= 1 /\ l[r].ok /\ IsSlotWrite(l[r + 1])
        /\ n >= r + 2 => IsSlotWrite(l[r + 2]) /\ SlotOf(l[r + 2]) # SlotOf(l[r + 1])
        /\ n >= r + 3 =>
             /\ IsTriggerWrite(l[n])
             /\ l[n].vals \in {<< SlotOf(l[r + 1]) >>, << SlotOf(l[r + 2]) >>}
        /\ CfgDone =>
             /\ n = r + 3
             /\ Cardinality({k \in 1 .. n : IsTriggerWrite(l[k])}) = 1
             /\ l[r + 1].vals[1] = get_lsb(cfg.position_target_end_um)
             /\ l[r + 2].vals[1] = get_lsb(cfg.position_target_start_um)

\* C5 witness: a call that returns after a repeated status read.
C5_Witness ==
    /\ CfgDone
    /\ Len(CfgLog) = 5
    /\ IsTriggerWrite(CfgLog[5])

\* C6 as claimed: configure returns a success value exactly when both slot
\* writes and the trigger write were acknowledged.
C6_SuccessIffAllAcknowledged ==
    CfgDone =>
        (Truthy(cfg.returned) <=> (OutEntry.ok /\ InEntry.ok /\ TriggerEntry.ok))

\* C7 as claimed: after a failed slot write no trigger write names a slot of
\* the pair that slot belongs to.
C7_NoTriggerAfterFailedSlotWrite ==
    \A i \in 1 .. Len(CfgLog) : \A j \in 1 .. Len(CfgLog) :
        (i < j /\ IsSlotWrite(CfgLog[i]) /\ ~CfgLog[i].ok)
            => ~(IsTriggerWrite(CfgLog[j])
                 /\ CfgLog[j].vals[1] \in PairOf(SlotOf(CfgLog[i])))

\* The values of the mode writes of the current call, in order.
ModeWrites == SelectSeq(log, IsModeWrite)

\* handle_state_change is about to return.
HscDone == pc = "hsc_return"

\* C8 as claimed: a call with stroke length 0 issues no trigger write, and
\* its last mode write, if any, is MODE_SLEEP.
C8_ZeroLengthSleepsAndSuppressesTrigger ==
    (HscDone /\ hsc.stroke_length_mm = 0) =>
        /\ \A k \in 1 .. Len(log) : ~IsTriggerWrite(log[k])
        /\ ModeWrites # << >> => ModeWrites[Len(ModeWrites)].vals = << MODE_SLEEP >>

\* C9 as claimed: a call whose exchanges all succeed issues at most one mode
\* write and leaves the mode Sleep when both stroke values are zero and
\* Kinematic when either is not.
C9_ModeTransitionPolicy ==
    (HscDone /\ \A k \in 1 .. Len(log) : log[k].ok) =>
        /\ Len(ModeWrites) <= 1
        /\ (hsc.stroke_rate_mm_s = 0 /\ hsc.stroke_length_mm = 0)
             => regs[MODE_OF_OPERATION] = MODE_SLEEP
        /\ (hsc.stroke_rate_mm_s # 0 \/ hsc.stroke_length_mm # 0)
             => regs[MODE_OF_OPERATION] = MODE_KINEMATIC

\* C10: within a handle_state_change call every mode write precedes every
\* slot write and every trigger write.
C10_ModeWritesFirst ==
    \A i \in 1 .. Len(log) : \A j \in 1 .. Len(log) :
        (i < j /\ IsModeWrite(log[j]))
            => ~IsSlotWrite(log[i]) /\ ~IsTriggerWrite(log[i])

\* C10 witness: a call that wrote the mode twice, then both slots, then
\* triggered.
C10_Witness ==
    /\ HscDone
    /\ Len(ModeWrites) = 2
    /\ \E k \in 1 .. Len(log) : IsSlotWrite(log[k])
    /\ \E k \in 1 .. Len(log) : IsTriggerWrite(log[k])

\* C11 as claimed: when the write of the auto-zero configuration registers
\* fails, the write of MODE_AUTO_ZERO to the mode control register is never
\* attempted.  (command_auto_zero issues the mode write unconditionally.)
C11_NoModeWriteAfterFailedConfigWrite ==
    \A j \in 1 .. Len(log) :
        IsAutoZeroModeWrite(log[j]) =>
            \A i \in 1 .. (j - 1) : IsConfigWrite(log[i]) => log[i].ok

\* C12: when the configuration write or the mode-register write fails,
\* auto_zero_wait returns False straight after the second write, without
\* having issued any read of the mode register.
C12_FailedInitiationReturnsFalseUnpolled ==
    /\ (AzDone /\ \E k \in 1 .. Len(log) : ~log[k].ok) =>
           /\ az.returned = "False"
           /\ az.polls = 0
           /\ az.mode = NoneInt
    /\ (pc = "az_poll") => \A k \in 1 .. Len(log) : log[k].ok

\* C12 witness: the configuration write failed, the mode write was
\* acknowledged, and auto_zero_wait is returning False.
C12_Witness ==
    /\ AzDone
    /\ Len(log) = 2
    /\ ~log[1].ok /\ log[2].ok
    /\ az.returned = "False"
    /\ az.polls = 0

\* C13: the values {AUTO_ZERO_MODE_ENABLED, max_force_n, exit_to_mode} are
\* written at ZERO_MODE (171..173) before MODE_AUTO_ZERO is written to the
\* mode control register; the mode is polled only after both writes; and
\* auto_zero_wait returns True only after a mode read answered with a value
\* other than MODE_AUTO_ZERO.
C13_ConfigThenModeThenPoll ==
    /\ \A j \in 1 .. Len(log) :
         IsModeWrite(log[j]) =>
            /\ j = 2
            /\ log[j].vals = << MODE_AUTO_ZERO >>
            /\ IsConfigWrite(log[1])
            /\ log[1].vals = << AUTO_ZERO_MODE_ENABLED, az.max_force_n, az.exit_to_mode >>
    /\ (pc = "az_poll" \/ az.polls > 0) =>
         /\ Len(log) = 2
         /\ IsConfigWrite(log[1]) /\ IsAutoZeroModeWrite(log[2])
    /\ az.returned = "True" =>
         /\ az.polls > 0
         /\ az.mode # NoneInt
         /\ az.mode # MODE_AUTO_ZERO

\* C13 witness: auto_zero_wait returns True after it polled the mode while
\* the actuator was still auto-zeroing, and the configuration registers hold
\* the call's values.
C13_Witness ==
    /\ AzDone
    /\ az.returned = "True"
    /\ az.polls >= 2
    /\ az.mode = az.exit_to_mode
    /\ regs[ZERO_MODE] = AUTO_ZERO_MODE_ENABLED
    /\ regs[AUTO_ZERO_FORCE_N] = az.max_force_n
    /\ regs[AUTO_ZERO_EXIT_MODE] = az.exit_to_mode

\* C14: once auto-zero is initiated and the poll loop runs, the firmware
\* leaving the auto-zero mode makes auto_zero_wait return, and return True
\* unless a mode read went unanswered (which returns False); the loop has
\* no other exit.
C14_PollLoopTerminates ==
    (pc = "az_poll") ~>
        (AzDone /\ (az.returned = "True" \/ (az.returned = "False" /\ az.mode = NoneInt)))

\* C14 witness: the loop read MODE_AUTO_ZERO as many times as are counted and
\* then returned True.
C14_Witness ==
    /\ AzDone
    /\ az.returned = "True"
    /\ az.polls = MaxPolls
    /\ az.mode # MODE_AUTO_ZERO

\* C14, the loop without the firmware's progress: a state of the poll loop
\* that has read MODE_AUTO_ZERO time after time and is polling still.
C14_StillPolling ==
    /\ pc = "az_poll"
    /\ az.polls = MaxPolls
    /\ az.mode = MODE_AUTO_ZERO
    /\ regs[MODE_OF_OPERATION] = MODE_AUTO_ZERO

\* C15 as claimed: no exchange is retried; a call of
\* configure_two_point_kinematic_motion issues at most one KINEMATIC_STATUS
\* read, and no exchange follows a failed one with the same request.  (The
\* while loop reads again after every error response.)
C15_NoAutomaticRetries ==
    /\ Cardinality({k \in 1 .. Len(CfgLog) : IsStatusStreamRead(CfgLog[k])}) <= 1
    /\ \A k \in 1 .. (Len(CfgLog) - 1) :
         ~CfgLog[k].ok =>
            ~(/\ CfgLog[k + 1].op = CfgLog[k].op
              /\ CfgLog[k + 1].addr = CfgLog[k].addr
              /\ CfgLog[k + 1].vals = CfgLog[k].vals)

\* What the caller's test `if not handle_state_success` (main.py 153) sees
\* as a failure: an empty tuple.
ReportsFailure(returns) == Len(returns) = 0

\* The mode read of a handle_state_change call went unanswered.
ModeReadFailed ==
    /\ pc \notin {"idle", "hsc_get_mode"}
    /\ Len(log) >= 1
    /\ log[1].op = "read" /\ log[1].addr = MODE_OF_OPERATION
    /\ ~log[1].ok

\* C16 as claimed: a handle_state_change call in which any exchange failed
\* returns a failure to its caller, and after a failed mode read it issues
\* no slot write and no trigger write.  (The call returns a non-empty tuple
\* always and goes on to configure after a failed mode read.)
C16_FailureReportedAndNothingWritten ==
    /\ (HscDone /\ \E k \in 1 .. Len(log) : ~log[k].ok) => ReportsFailure(hsc.returns)
    /\ ModeReadFailed =>
         \A k \in 1 .. Len(log) : ~IsSlotWrite(log[k]) /\ ~IsTriggerWrite(log[k])

\* --------------------- actuator.py: register and custom-frame operations

\* What each operation hands to its caller, by the outcome of its exchange:
\* "registers" is the list read, "result" a decoded custom-frame result,
\* "raises" a ModbusIOException that the operation does not catch.

\* actuator.py 687-697
read_register_returns(outcome) == IF outcome = "ok" THEN "registers" ELSE "None"

\* actuator.py 710-720, 733-743
write_register_returns(outcome) == IF outcome = "ok" THEN "True" ELSE "False"
write_registers_returns(outcome) == IF outcome = "ok" THEN "True" ELSE "False"

\* actuator.py 763-770: no try around client.execute.
manage_high_speed_stream_returns(outcome) ==
    IF outcome = "ok" THEN "result" ELSE IF outcome = "exception" THEN "None" ELSE "raises"

\* actuator.py 787-796: the last line is `response.result`, without return.
motor_command_stream_returns(outcome) ==
    IF outcome = "ok" THEN "None" ELSE IF outcome = "exception" THEN "None" ELSE "raises"

\* actuator.py 813-822
motor_read_stream_returns(outcome) ==
    IF outcome = "ok" THEN "result" ELSE IF outcome = "exception" THEN "None" ELSE "raises"

\* actuator.py 840-849: the last line is `response.result`, without return.
motor_write_stream_returns(outcome) ==
    IF outcome = "ok" THEN "None" ELSE IF outcome = "exception" THEN "None" ELSE "raises"

RegisterOps == {"read_register", "write_register", "write_registers"}
FrameOps ==
    {"manage_high_speed_stream", "motor_command_stream", "motor_read_stream",
     "motor_write_stream"}
Failures == Outcomes \ {"ok"}

\* Inputs of the calls.
LinkReadAddrs == {MODE_OF_OPERATION, ZERO_MODE}
LinkWriteAddrs == {CTRL_REG_3, AUTO_ZERO_FORCE_N}
LinkValues == {MODE_SLEEP, MODE_KINEMATIC}

\* The record of a call, the one before it kept in prev.
LinkCall(op, address, outcome, returns, registers) ==
    [ op |-> op, address |-> address, outcome |-> outcome, returns |-> returns,
      registers |-> registers,
      prev |-> [ op |-> lnk.op, outcome |-> lnk.outcome, returns |-> lnk.returns ] ]

InitLink ==
    /\ \E m \in InitModes :
         regs = [a \in AzAddr |->
                   IF a = CTRL_REG_3 \/ a = MODE_OF_OPERATION THEN m ELSE 0]
    /\ pc = "idle"
    /\ hsc = HscIdle
    /\ cfg = CfgIdle
    /\ log = << >>
    /\ ncalls = 0
    /\ az = AzIdle
    /\ lnk = LnkIdle
    /\ bits = BitsIdle
    /\ calc = CalcIdle
    /\ frame = FrameIdle
    /\ mn = MainIdle

LinkReadRegister ==
    /\ ncalls < MaxCalls
    /\ \E address \in LinkReadAddrs, outcome \in Outcomes :
         lnk' = LinkCall("read_register", address, outcome,
                         read_register_returns(outcome),
                         IF outcome = "ok" THEN << regs[address] >> ELSE << >>)
    /\ ncalls' = ncalls + 1
    /\ UNCHANGED regs
    /\ UNCHANGED NotLink

LinkWriteRegister ==
    /\ ncalls < MaxCalls
    /\ \E address \in LinkWriteAddrs, value \in LinkValues, outcome \in Outcomes :
         /\ lnk' = LinkCall("write_register", address, outcome,
                            write_register_returns(outcome), << >>)
         /\ regs' = AzWritten(outcome, address, << value >>)
    /\ ncalls' = ncalls + 1
    /\ UNCHANGED NotLink

LinkWriteRegisters ==
    /\ ncalls < MaxCalls
    /\ \E force \in MaxForces, exit \in ExitModes, outcome \in Outcomes :
         /\ lnk' = LinkCall("write_registers", ZERO_MODE, outcome,
                            write_registers_returns(outcome), << >>)
         /\ regs' = AzWritten(outcome, ZERO_MODE, << AUTO_ZERO_MODE_ENABLED, force, exit >>)
    /\ ncalls' = ncalls + 1
    /\ UNCHANGED NotLink

LinkManageHighSpeedStream ==
    /\ ncalls < MaxCalls
    /\ \E outcome \in Outcomes :
         lnk' = LinkCall("manage_high_speed_stream", 0, outcome,
                         manage_high_speed_stream_returns(outcome), << >>)
    /\ ncalls' = ncalls + 1
    /\ UNCHANGED regs
    /\ UNCHANGED NotLink

LinkMotorCommandStream ==
    /\ ncalls < MaxCalls
    /\ \E outcome \in Outcomes :
         lnk' = LinkCall("motor_command_stream", 0, outcome,
                         motor_command_stream_returns(outcome), << >>)
    /\ ncalls' = ncalls + 1
    /\ UNCHANGED regs
    /\ UNCHANGED NotLink

LinkMotorReadStream ==
    /\ ncalls < MaxCalls
    /\ \E address \in LinkReadAddrs, outcome \in Outcomes :
         lnk' = LinkCall("motor_read_stream", address, outcome,
                         motor_read_stream_returns(outcome),
                         IF outcome = "ok" THEN << regs[address] >> ELSE << >>)
    /\ ncalls' = ncalls + 1
    /\ UNCHANGED regs
    /\ UNCHANGED NotLink

LinkMotorWriteStream ==
    /\ ncalls < MaxCalls
    /\ \E address \in LinkWriteAddrs, value \in LinkValues, outcome \in Outcomes :
         /\ lnk' = LinkCall("motor_write_stream", address, outcome,
                            motor_write_stream_returns(outcome), << >>)
         /\ regs' = AzWritten(outcome, address, << value >>)
    /\ ncalls' = ncalls + 1
    /\ UNCHANGED NotLink

NextLink ==
    \/ LinkReadRegister
    \/ LinkWriteRegister
    \/ LinkWriteRegisters
    \/ LinkManageHighSpeedStream
    \/ LinkMotorCommandStream
    \/ LinkMotorReadStream
    \/ LinkMotorWriteStream

SpecLink == InitLink /\ [][NextLink]_vars

\* C17 as claimed: a register operation reports an I/O failure and an
\* exception response as distinct outcomes: two calls of one operation that
\* failed in the two ways hand their caller different values.  (Both failures
\* return None from read_register and False from the writes.)
C17_FailureKindsDistinct ==
    (/\ lnk.op \in RegisterOps
     /\ lnk.prev.op = lnk.op
     /\ lnk.outcome \in Failures
     /\ lnk.prev.outcome \in Failures
     /\ lnk.outcome # lnk.prev.outcome)
        => lnk.returns # lnk.prev.returns

\* C18 as claimed: each custom-frame operation returns the decoded result
\* after a successful exchange and a failure after a failed one, so that a
\* successful call and a failed call of one operation never return the same.
\* (motor_command_stream and motor_write_stream return None after success.)
C18_FrameSuccessDistinguishable ==
    /\ (lnk.op \in FrameOps /\ lnk.outcome = "ok") => lnk.returns = "result"
    /\ (lnk.op \in FrameOps /\ lnk.outcome \in Failures) => lnk.returns \in {"None", "raises"}
    /\ (/\ lnk.op \in FrameOps
        /\ lnk.prev.op = lnk.op
        /\ lnk.outcome = "ok"
        /\ lnk.prev.outcome \in Failures)
          => lnk.returns # lnk.prev.returns

\* ------------------------------------------------ bit_utils.py, run alone

\* The i32 values the functions are run on.
I32Max == 2147483647
I32Min == (-I32Max) - 1
I32Samples ==
    {I32Min + k : k \in 0 .. BitsSpan}
        \cup (((-Pow16) - BitsSpan) .. ((-Pow16) + BitsSpan))
        \cup ((-BitsSpan) .. BitsSpan)
        \cup ((Pow16 - BitsSpan) .. (Pow16 + BitsSpan))
        \cup {I32Max - k : k \in 0 .. BitsSpan}

\* The high word as set_kinematic_motion takes it (actuator.py 511-516).
SplitHigh(value) == get_msb(value)

InitBits ==
    /\ regs = [a \in AzAddr |-> 0]
    /\ pc = "idle"
    /\ hsc = HscIdle
    /\ cfg = CfgIdle
    /\ log = << >>
    /\ ncalls = 0
    /\ az = AzIdle
    /\ lnk = LnkIdle
    /\ bits = BitsIdle
    /\ calc = CalcIdle
    /\ frame = FrameIdle
    /\ mn = MainIdle

\* get_lsb(value) and get_msb(value) of an i32 value.
BitsSplit ==
    /\ \E value \in I32Samples :
         bits' = [ op |-> "split", value |-> value,
                   low |-> get_lsb(value), high |-> SplitHigh(value),
                   combined |-> 0 ]
    /\ UNCHANGED NotBits

\* combine_low_high of the two words of the last split.
BitsCombine ==
    /\ bits.op = "split"
    /\ bits' = [bits EXCEPT !.op = "combine",
                            !.combined = combine_low_high(bits.low, bits.high)]
    /\ UNCHANGED NotBits

NextBits ==
    \/ BitsSplit
    \/ BitsCombine

SpecBits == InitBits /\ [][NextBits]_vars

C20_BothWordsAreRegisterValues ==
    bits.op # "none" =>
        /\ bits.low = bits.value % Pow16
        /\ bits.high = (bits.value \div Pow16) % Pow16
        /\ bits.low \in 0 .. (Pow16 - 1)
        /\ bits.high \in 0 .. (Pow16 - 1)

\* ------------- the computations of configure and of set_kinematic_motion

\* Lengths and rates are floats in the code; here they are whole numbers of
\* tenths of a micrometre (per second), so that int() and round() differ.
UnitsPerUm == 10
UnitsPerMm == 10000

\* int(mm * 1000) of a length given in these units
IntUm(u) == IntDiv(u, UnitsPerUm)

\* lib_bytemachine.py 46 and 48-50, on lengths in these units.
start_um_of(offset_u) == Max(IntUm(offset_u), 0)
end_um_of(length_u, offset_u) == Max(IntUm(length_u + offset_u), 0)

\* Python's round(a / b) for b > 0: to nearest, a tie to the even neighbour.
RoundDiv(a, b) ==
    LET q == a \div b
        r == a % b
    IN  IF 2 * r < b THEN q
        ELSE IF 2 * r > b THEN q + 1
        ELSE IF q % 2 = 0 THEN q ELSE q + 1

\* Inputs: rates of 20, 30, 100 and 676 mm/s; lengths of -1 mm, 0, 0.6 um,
\* 20 mm, 50 mm and 50.0005 mm; offsets around 0, 1.5 um and 35 mm.
CalcRates == {20 * UnitsPerMm, 30 * UnitsPerMm, 100 * UnitsPerMm, 676 * UnitsPerMm}
CalcLengths == {-UnitsPerMm, 0, 6, 20 * UnitsPerMm, 50 * UnitsPerMm, 50 * UnitsPerMm + 5}
CalcOffsets == {-5, 0, 5, 6, 15, 35 * UnitsPerMm}

\* Inputs of set_kinematic_motion.
MotionTypes == 0 .. 3
NextIds == 0 .. 31
AutoStarts == 0 .. 1
CalcTargets == {35000, 85000}
CalcSettlings == {2500, Pow16 + 5, 2 * Pow16 + 1}

\* The fields of a slot's sixth register, by the documented layout.
UnpackMotionType(x) == (x \div 2) % 4
UnpackNextId(x) == (x \div 8) % 32
UnpackAutoStartNext(x) == x % 2

InitCalc ==
    /\ regs = [a \in AzAddr |-> 0]
    /\ pc = "idle"
    /\ hsc = HscIdle
    /\ cfg = CfgIdle
    /\ log = << >>
    /\ ncalls = 0
    /\ az = AzIdle
    /\ lnk = LnkIdle
    /\ bits = BitsIdle
    /\ calc = CalcIdle
    /\ frame = FrameIdle
    /\ mn = MainIdle

\* lib_bytemachine.py 43-50
CalcConfigure ==
    /\ \E rate \in CalcRates, length \in CalcLengths, offset \in CalcOffsets :
         calc' = [ op |-> "configure",
                   stroke_rate |-> rate,
                   stroke_length |-> length,
                   stroke_start_offset |-> offset,
                   settling_time_ms |-> settling_time_ms(rate, length),
                   position_target_start_um |-> start_um_of(offset),
                   position_target_end_um |-> end_um_of(length, offset) ]
    /\ UNCHANGED NotCalc

\* actuator.py 511-527: the register values of one slot write
CalcSetKinematicMotion ==
    /\ \E target \in CalcTargets, settling \in CalcSettlings :
       \E type \in MotionTypes, next \in NextIds, auto \in AutoStarts :
         calc' = [ op |-> "set_kinematic_motion",
                   position_target_um |-> target,
                   settling_time_ms |-> settling,
                   motion_type |-> type,
                   next_id |-> next,
                   auto_start_next |-> auto,
                   vals |-> SlotValues(target, settling, 0, next, type, auto) ]
    /\ UNCHANGED NotCalc

NextCalc ==
    \/ CalcConfigure
    \/ CalcSetKinematicMotion

SpecCalc == InitCalc /\ [][NextCalc]_vars

\* C21: for every motion type in 0..3, next id in 0..31 and auto-start flag
\* in 0..1 the sixth register of the slot write unpacks to the three fields
\* it was packed from, and is an 8-bit value.
C21_PackedFieldsRoundTrip ==
    calc.op = "set_kinematic_motion" =>
        /\ UnpackMotionType(calc.vals[6]) = calc.motion_type
        /\ UnpackNextId(calc.vals[6]) = calc.next_id
        /\ UnpackAutoStartNext(calc.vals[6]) = calc.auto_start_next
        /\ calc.vals[6] \in 0 .. 255

\* C21 witness: the greatest fields pack to 255.
C21_Witness ==
    /\ calc.op = "set_kinematic_motion"
    /\ calc.motion_type = 3 /\ calc.next_id = 31 /\ calc.auto_start_next = 1
    /\ calc.vals[6] = 255

\* C22 as claimed: the settling time is
\* max(0, round(stroke_length / stroke_rate * 1000)), rounded to nearest.
\* (The code truncates with int().)
C22_SettlingTimeRounded ==
    calc.op = "configure" =>
        calc.settling_time_ms = Max(0, RoundDiv(calc.stroke_length * 1000, calc.stroke_rate))

\* C23 as claimed: the position targets are max(0, round(offset * 1000)) and
\* max(0, round((length + offset) * 1000)), both non-negative, the end target
\* not below the start target when the length is not negative.  (The code
\* truncates with int().)
C23_PositionTargetsRounded ==
    calc.op = "configure" =>
        /\ calc.position_target_start_um = Max(0, RoundDiv(calc.stroke_start_offset, UnitsPerUm))
        /\ calc.position_target_end_um =
             Max(0, RoundDiv(calc.stroke_length + calc.stroke_start_offset, UnitsPerUm))
        /\ calc.position_target_start_um >= 0
        /\ calc.position_target_end_um >= 0
        /\ calc.stroke_length >= 0 =>
             calc.position_target_end_um >= calc.position_target_start_um

\* C27: in every slot write the first two registers are the low and the high
\* word of the position target, the third is the low word of the settling
\* time and the fourth its high word, settling_time_ms >> 16.
C27_ShiftCorrectWords ==
    calc.op = "set_kinematic_motion" =>
        /\ calc.vals[1] = calc.position_target_um % Pow16
        /\ calc.vals[2] = calc.position_target_um \div Pow16
        /\ calc.vals[3] = calc.settling_time_ms % Pow16
        /\ calc.vals[4] = calc.settling_time_ms \div Pow16

\* C27 witness: a settling time of 65541 ms is written as low word 5 and
\* high word 1, a target of 85000 um as 19464 and 1.
C27_Witness ==
    /\ calc.op = "set_kinematic_motion"
    /\ calc.settling_time_ms = Pow16 + 5
    /\ calc.vals[3] = 5 /\ calc.vals[4] = 1
    /\ calc.position_target_um = 85000
    /\ calc.vals[1] = 19464 /\ calc.vals[2] = 1

\* The trigger writes of the current call, and the slots it wrote.
TriggerWrites == SelectSeq(log, IsTriggerWrite)
SlotsWritten == {SlotOf(log[k]) : k \in {j \in 1 .. Len(log) : IsSlotWrite(log[j])}}

\* C30 as claimed: after a handle_state_change call with nonzero stroke
\* parameters in which every exchange succeeded, the slot last written to
\* KIN_SW_TRIGGER is one of the slots the call wrote, whatever
\* KINEMATIC_STATUS held.  (With bit 15 clear the call ends by triggering
\* slot 0, which it wrote only if the active id was outside {0,1}.)
C30_LastTriggerInWrittenPair ==
    (/\ HscDone
     /\ hsc.stroke_rate_mm_s # 0 /\ hsc.stroke_length_mm # 0
     /\ \A k \in 1 .. Len(log) : log[k].ok)
        => /\ TriggerWrites # << >>
           /\ TriggerWrites[Len(TriggerWrites)].vals[1] \in SlotsWritten

\* actuator.py 71: the slave address of the session.
slave_address == 1

\* The slave id of a request built without slave=: the library's default.
DefaultSlave == 0

\* The slave id each operation's request carries: the register operations
\* and three of the custom-frame requests pass slave=self.slave_address,
\* ManageHighSpeedStreamRequest is built without it (actuator.py 763).
RequestSlave(op) ==
    IF op = "manage_high_speed_stream" THEN DefaultSlave ELSE slave_address

\* C29 as claimed: every request of the session, register reads and writes
\* and all four custom frames, is addressed to slave 1.
C29_EveryRequestToSlaveOne ==
    lnk.op # "none" => RequestSlave(lnk.op) = 1

\* ------------------------------------- the four custom frames' codecs

\* A Python int that may not fit 32 signed bits: hi * 2^16 + lo with lo in
\* 0 .. 65535.  4294967295 is W(65535, 65535) and -1 is W(-1, 65535).
W(hi, lo) == [ hi |-> hi, lo |-> lo ]

FrameKinds ==
    {"manage_high_speed_stream", "motor_command_stream", "motor_read_stream",
     "motor_write_stream"}

\* struct format characters: B, H, I are unsigned, of 1, 2 and 4 bytes.
CodeSize(code) == IF code = "B" THEN 1 ELSE IF code = "H" THEN 2 ELSE 4

RECURSIVE CalcSize(_)
CalcSize(fmt) == IF fmt = << >> THEN 0 ELSE CodeSize(Head(fmt)) + CalcSize(Tail(fmt))

\* struct.pack accepts a value of the code's unsigned range only.
CanPack(code, w) ==
    IF code = "B" THEN w.hi = 0 /\ w.lo <= 255
    ELSE IF code = "H" THEN w.hi = 0
    ELSE w.hi >= 0 /\ w.hi < Pow16

\* Mutant: the fields are packed low byte first.
PackField_little_endian(code, w) ==
    IF code = "B" THEN << w.lo >>
    ELSE IF code = "H" THEN << w.lo % 256, w.lo \div 256 >>
    ELSE << w.lo % 256, w.lo \div 256, w.hi % 256, w.hi \div 256 >>

PackField(code, w) ==
    IF code = "B" THEN << w.lo >>
    ELSE IF code = "H" THEN << w.lo \div 256, w.lo % 256 >>
    ELSE << w.hi \div 256, w.hi % 256, w.lo \div 256, w.lo % 256 >>

RECURSIVE PackAll(_, _)
PackAll(fmt, vals) ==
    IF fmt = << >> THEN << >>
    ELSE PackField(Head(fmt), Head(vals)) \o PackAll(Tail(fmt), Tail(vals))

\* struct.pack(fmt, *vals): the bytes, or struct.error
Pack(fmt, vals) ==
    IF Len(vals) = Len(fmt) /\ \A k \in 1 .. Len(fmt) : CanPack(fmt[k], vals[k])
    THEN [ raised |-> "none", bytes |-> PackAll(fmt, vals) ]
    ELSE [ raised |-> "struct.error", bytes |-> << >> ]

ByteAt(data, i) == IF i >= 1 /\ i <= Len(data) THEN data[i] ELSE 0

UnpackField(code, data, off) ==
    IF code = "B" THEN W(0, ByteAt(data, off + 1))
    ELSE IF code = "H" THEN W(0, ByteAt(data, off + 1) * 256 + ByteAt(data, off + 2))
    ELSE W(ByteAt(data, off + 1) * 256 + ByteAt(data, off + 2),
           ByteAt(data, off + 3) * 256 + ByteAt(data, off + 4))

UnpackAll(fmt, data) ==
    [ k \in 1 .. Len(fmt) |-> UnpackField(fmt[k], data, CalcSize(SubSeq(fmt, 1, k - 1))) ]

\* Mutant: a buffer of the wrong size is unpacked as far as it goes.
UnpackFails_never(fmt, data) == FALSE

\* struct.unpack raises struct.error unless the buffer has the format's size.
UnpackFails(fmt, data) == Len(data) # CalcSize(fmt)

\* struct.unpack(fmt, data): the values, or struct.error
Unpack(fmt, data) ==
    IF UnpackFails(fmt, data)
    THEN [ raised |-> "struct.error", vals |-> << >> ]
    ELSE [ raised |-> "none", vals |-> UnpackAll(fmt, data) ]

\* data[0 : n]
Slice(data, n) == SubSeq(data, 1, IF n < Len(data) THEN n ELSE Len(data))

\* The response formats: ">BIH", ">IIHBHH", ">IBIIHBHH", ">BIIHBHH".
ResponseFormat(kind) ==
    IF kind = "manage_high_speed_stream" THEN << "B", "I", "H" >>
    ELSE IF kind = "motor_command_stream" THEN << "I", "I", "H", "B", "H", "H" >>
    ELSE IF kind = "motor_read_stream" THEN << "I", "B", "I", "I", "H", "B", "H", "H" >>
    ELSE << "B", "I", "I", "H", "B", "H", "H" >>

\* A response object: its values list and its result (the members of
\* MotorWriteStreamResponse), unset until values are there.
ResponseNew(values) ==
    [ values |-> values,
      result |-> [ set |-> values # << >>, fields |-> values ] ]

\* Response.encode: None without values (MotorWriteStreamResponse packs its
\* members, None without values, which struct.pack refuses).
ResponseEncode(kind, obj) ==
    IF obj.values = << >>
    THEN [ raised |-> IF kind = "motor_write_stream" THEN "struct.error" ELSE "none",
           bytes |-> << >> ]
    ELSE Pack(ResponseFormat(kind), obj.values)

\* Response.decode(data)
ResponseDecode(kind, obj, data) ==
    LET fmt == ResponseFormat(kind)
        u == Unpack(fmt, Slice(data, CalcSize(fmt)))
    IN  IF u.raised # "none"
        THEN [ raised |-> u.raised, obj |-> obj ]
        ELSE [ raised |-> "none", obj |-> ResponseNew(u.vals) ]

\* 0xFF00
EnableCode == 65280

\* Request.encode for the constructor's fields.
RequestEncode(kind, f) ==
    IF kind = "manage_high_speed_stream"
    THEN Pack(<< "H", "I", "H" >>,
              << W(0, IF f[1].lo # 0 THEN EnableCode ELSE 0), f[2], f[3] >>)
    ELSE IF kind = "motor_command_stream" THEN Pack(<< "B", "I" >>, f)
    ELSE IF kind = "motor_read_stream" THEN Pack(<< "H", "B" >>, f)
    ELSE IF f[2] = W(0, 1)
    THEN Pack(<< "H", "B", "H", "H" >>, << f[1], f[2], W(0, 0), f[3] >>)
    ELSE Pack(<< "H", "B", "I" >>, f)

\* Request.decode(data) in an object constructed with the fields f.
RequestDecode(kind, f, data) ==
    IF kind = "manage_high_speed_stream"
    THEN LET u == Unpack(<< "H", "I", "H" >>, data)
         IN  IF u.raised # "none" THEN [ raised |-> u.raised, fields |-> f ]
             ELSE [ raised |-> "none",
                    fields |-> << W(0, IF u.vals[1] = W(0, EnableCode) THEN 1 ELSE 0),
                                  u.vals[2], u.vals[3] >> ]
    ELSE IF kind = "motor_command_stream"
    THEN LET u == Unpack(<< "B", "I" >>, data)
         IN  [ raised |-> u.raised, fields |-> IF u.raised = "none" THEN u.vals ELSE f ]
    ELSE IF kind = "motor_read_stream"
    THEN LET u == Unpack(<< "H", "B" >>, data)
         IN  [ raised |-> u.raised, fields |-> IF u.raised = "none" THEN u.vals ELSE f ]
    ELSE IF f[2] = W(0, 1)
    THEN LET u == Unpack(<< "H", "B", "H", "H" >>, data)
         IN  [ raised |-> u.raised,
               fields |-> IF u.raised = "none"
                          THEN << u.vals[1], u.vals[2], u.vals[4] >> ELSE f ]
    ELSE LET u == Unpack(<< "H", "B", "I" >>, data)
         IN  [ raised |-> u.raised, fields |-> IF u.raised = "none" THEN u.vals ELSE f ]

\* The documented type of each response field (Orca's stream responses).
ResponseTypes(kind) ==
    IF kind = "manage_high_speed_stream" THEN << "u8", "u32", "u16" >>
    ELSE IF kind = "motor_command_stream"
    THEN << "i32", "i32", "i16", "i8", "u16", "u16" >>
    ELSE IF kind = "motor_read_stream"
    THEN << "u32", "u8", "i32", "i32", "i16", "i8", "u16", "u16" >>
    ELSE << "u8", "i32", "i32", "i16", "i8", "u16", "u16" >>

\* Sample values of a documented type: one positive, and -1 where signed.
TypeSamples(type) ==
    IF type = "u8" THEN {W(0, 3)}
    ELSE IF type = "u16" THEN {W(0, 7)}
    ELSE IF type = "u32" THEN {W(1, 0)}
    ELSE {W(0, 5), W(-1, Pow16 - 1)}

RECURSIVE SamplesOf(_)
SamplesOf(types) ==
    IF types = << >> THEN {<< >>}
    ELSE { << h >> \o t : h \in TypeSamples(Head(types)), t \in SamplesOf(Tail(types)) }

ResponseValues(kind) == SamplesOf(ResponseTypes(kind))

\* The constructor arguments of a request, within the documented widths.
RequestFields(kind) ==
    IF kind = "manage_high_speed_stream"
    THEN { << e, b, W(0, 50) >> : e \in {W(0, 0), W(0, 1)}, b \in {W(0, 19200), W(9, 35176)} }
    ELSE IF kind = "motor_command_stream"
    THEN { << c, d >> : c \in {W(0, 28), W(0, 30)},
                        d \in {W(0, 5), W(1, 0), W(-1, Pow16 - 1)} }
    ELSE IF kind = "motor_read_stream"
    THEN { << W(0, 319), w >> : w \in {W(0, 1), W(0, 2)} }
    ELSE { << W(0, 140), W(0, 1), d >> : d \in {W(0, 5), W(0, Pow16 - 1)} }
         \cup { << W(0, 140), W(0, 2), d >> : d \in {W(0, 5), W(1, 0), W(Pow16 - 1, Pow16 - 1)} }

\* The bytes the motor sends for a field of a documented type: big-endian,
\* two's complement where signed.
DevicePackField(type, w) ==
    IF type \in {"u8", "i8"} THEN << w.lo % 256 >>
    ELSE IF type \in {"u16", "i16"} THEN << w.lo \div 256, w.lo % 256 >>
    ELSE << (w.hi % Pow16) \div 256, w.hi % 256, w.lo \div 256, w.lo % 256 >>

RECURSIVE DevicePack(_, _)
DevicePack(types, vals) ==
    IF types = << >> THEN << >>
    ELSE DevicePackField(Head(types), Head(vals)) \o DevicePack(Tail(types), Tail(vals))

\* The decoding response object before decode: fresh, or holding an earlier
\* response.
StaleValues(kind) == [ k \in 1 .. Len(ResponseFormat(kind)) |-> W(0, 9) ]

InitFrame ==
    /\ frame = FrameIdle
    /\ regs = [a \in AzAddr |-> 0]
    /\ pc = "idle"
    /\ hsc = HscIdle
    /\ cfg = CfgIdle
    /\ log = << >>
    /\ ncalls = 0
    /\ az = AzIdle
    /\ lnk = LnkIdle
    /\ bits = BitsIdle
    /\ calc = CalcIdle
    /\ mn = MainIdle

\* request = XRequest(*fields); request.encode()
FrameEncodeRequest ==
    /\ \E kind \in FrameKinds : \E f \in RequestFields(kind) :
         LET e == RequestEncode(kind, f)
         IN  frame' = [ op |-> "encoded", dir |-> "request", kind |-> kind,
                        source |-> "driver", fields |-> f,
                        raised |-> e.raised, bytes |-> e.bytes ]
    /\ UNCHANGED NotFrame

\* response = XResponse(values); response.encode()
FrameEncodeResponse ==
    /\ \E kind \in FrameKinds : \E v \in ResponseValues(kind) :
         LET e == ResponseEncode(kind, ResponseNew(v))
         IN  frame' = [ op |-> "encoded", dir |-> "response", kind |-> kind,
                        source |-> "driver", fields |-> v,
                        raised |-> e.raised, bytes |-> e.bytes ]
    /\ UNCHANGED NotFrame

\* The motor answers with the documented layout.
FrameDeviceResponds ==
    /\ \E kind \in FrameKinds : \E v \in ResponseValues(kind) :
         frame' = [ op |-> "encoded", dir |-> "response", kind |-> kind,
                    source |-> "device", fields |-> v, raised |-> "none",
                    bytes |-> DevicePack(ResponseTypes(kind), v) ]
    /\ UNCHANGED NotFrame

\* XRequest(*fresh).decode(data) on the encoded bytes
FrameDecodeRequest ==
    /\ frame.op = "encoded"
    /\ frame.dir = "request"
    /\ frame.raised = "none"
    /\ \E fresh \in RequestFields(frame.kind) :
         LET d == RequestDecode(frame.kind, fresh, frame.bytes)
         IN  frame' = [ op |-> "decoded", dir |-> "request", kind |-> frame.kind,
                        source |-> frame.source, fields |-> frame.fields,
                        bytes |-> frame.bytes, fresh |-> fresh,
                        raised |-> d.raised, decoded |-> d.fields ]
    /\ UNCHANGED NotFrame

\* response.decode(data) on the first n bytes of the payload
FrameDecodeResponse ==
    /\ frame.op = "encoded"
    /\ frame.dir = "response"
    /\ frame.raised = "none"
    /\ \E n \in 0 .. Len(frame.bytes) :
       \E before \in {ResponseNew(<< >>), ResponseNew(StaleValues(frame.kind))} :
         LET d == ResponseDecode(frame.kind, before, Slice(frame.bytes, n))
         IN  frame' = [ op |-> "decoded", dir |-> "response", kind |-> frame.kind,
                        source |-> frame.source, fields |-> frame.fields,
                        bytes |-> frame.bytes, n |-> n, before |-> before,
                        raised |-> d.raised, obj |-> d.obj ]
    /\ UNCHANGED NotFrame

NextFrame ==
    \/ FrameEncodeRequest
    \/ FrameEncodeResponse
    \/ FrameDeviceResponds
    \/ FrameDecodeRequest
    \/ FrameDecodeResponse

SpecFrame == InitFrame /\ [][NextFrame]_vars

DecodedResponse == frame.op = "decoded" /\ frame.dir = "response"

ShortPayload == DecodedResponse /\ frame.n < CalcSize(ResponseFormat(frame.kind))

\* C24: for each of the four response types, decoding a payload shorter than
\* the type's fixed size fails with a length error (struct.error, raised by
\* struct.unpack) and leaves the object's values and result as they were.
C24_ShortPayloadFailsUnchanged ==
    ShortPayload => /\ frame.raised = "struct.error"
                    /\ frame.obj = frame.before

\* C24 witness: a MotorReadStream payload missing its last field (18 of 20
\* bytes) was decoded by a fresh object, whose result is still unset.
C24_Witness ==
    /\ ShortPayload
    /\ frame.kind = "motor_read_stream"
    /\ frame.n = 18
    /\ frame.before = ResponseNew(<< >>)
    /\ ~frame.obj.result.set

\* C25: encoding an object whose fields are within the documented widths
\* succeeds, and decoding the bytes with a freshly constructed object of the
\* same type reproduces the fields.
C25_EncodeDecodeRoundTrip ==
    /\ (frame.op = "encoded" /\ frame.source = "driver") => frame.raised = "none"
    /\ (frame.op = "decoded" /\ frame.source = "driver" /\ frame.dir = "request")
         => frame.raised = "none" /\ frame.decoded = frame.fields
    /\ (DecodedResponse /\ frame.source = "driver" /\ ~ShortPayload
          /\ frame.before = ResponseNew(<< >>))
         => frame.raised = "none" /\ frame.obj.values = frame.fields

\* C26: the fields decoded from the motor's payload carry the documented
\* signedness (a position of bytes FF FF FF FF is -1), and a
\* MotorCommandStream request accepts negative data.
C26_DocumentedSignedness ==
    /\ (DecodedResponse /\ frame.source = "device" /\ ~ShortPayload)
         => frame.raised = "none" /\ frame.obj.values = frame.fields
    /\ (frame.op = "encoded" /\ frame.dir = "request"
          /\ frame.kind = "motor_command_stream")
         => frame.raised = "none"

\* ------------------------------------------- main(): the key loop

\* Keys the listener may report in one run.
MaxKeys == 3

\* right, up and down take the path of left through handle_key.
Keys == {"left", "esc", "other"}

\* The exchanges of main.py 98-111 in order: set_mode(MODE_SLEEP),
\* reset_kinematic_config, reset_user_options (two writes), auto_zero_wait
\* (two writes and the mode poll), set_max_force.
StartupProgram ==
    << "write_mode_sleep", "write_ctrl_reg_4", "write_ctrl_reg_4", "write_ctrl_reg_4",
       "az_write_config", "az_write_mode", "az_poll", "write_max_force" >>

\* The exchanges of handle_state_change with configure in it: the mode and
\* status reads, the status stream read, both slot writes, the trigger.
HandleStateChangeProgram ==
    << "read_mode", "read_status", "stream_read_status",
       "slot_write", "slot_write", "trigger_write" >>

\* Mutant: the loop is left without the mode write.
ExitProgram_close_only == << >>

\* main.py 169-171: if should_exit: await actuator.set_mode(MODE_SLEEP); break
ExitProgram == << "write_mode_sleep" >>

MotionWrites == {"slot_write", "trigger_write"}

\* Mutant: main goes on whatever auto_zero_wait returned.
AutoZeroContinues_always(auto_zero_success) == TRUE

\* main.py 104-107: if not auto_zero_success: return
AutoZeroContinues(auto_zero_success) == auto_zero_success

\* Mutant: the next statement runs without waiting for the awaited exchange.
AwaitDone_fire_and_forget(m) == TRUE

\* `await actuator.x(...)`: the task goes on once the exchange has completed.
AwaitDone(m) == m.in_flight = 0

\* The event loop runs callbacks only while the main task is suspended: in
\* key_queue.get() or in an awaited exchange.
TaskSuspended(m) == m.pc = "wait_key" \/ m.in_flight > 0

MainRunning(m) == m.pc \in {"startup", "wait_key", "handling", "exit_sleep"}

InitMain ==
    /\ mn = MainIdle
    /\ regs = [a \in AzAddr |-> 0]
    /\ pc = "idle"
    /\ hsc = HscIdle
    /\ cfg = CfgIdle
    /\ log = << >>
    /\ ncalls = 0
    /\ az = AzIdle
    /\ lnk = LnkIdle
    /\ bits = BitsIdle
    /\ calc = CalcIdle
    /\ frame = FrameIdle

\* main.py 91-96: get_keys_queue() starts the listener, then connect()
MainStart ==
    /\ mn.pc = "not_started"
    /\ \E connected \in BOOLEAN :
         mn' = [ pc |-> IF connected THEN "startup" ELSE "returned",
                 queue |-> << >>, pending |-> << >>, pressed |-> << >>,
                 handled |-> << >>, key |-> << >>, in_flight |-> 0,
                 todo |-> IF connected THEN StartupProgram ELSE << >>,
                 cur |-> "none", last |-> "none", waited |-> FALSE,
                 az_write_ok |-> FALSE, az_true |-> FALSE, motion |-> FALSE ]
    /\ UNCHANGED NotMain

\* on_press in the listener thread: loop.call_soon_threadsafe(queue.put_nowait, key)
KeyPress ==
    /\ MainRunning(mn)
    /\ Len(mn.pressed) < MaxKeys
    /\ \E k \in Keys :
         mn' = [ mn EXCEPT !.pressed = Append(@, k), !.pending = Append(@, k) ]
    /\ UNCHANGED NotMain

\* the event loop runs the scheduled queue.put_nowait(key)
LoopRunsCallback ==
    /\ MainRunning(mn)
    /\ mn.pending # << >>
    /\ TaskSuspended(mn)
    /\ mn' = [ mn EXCEPT !.pending = Tail(@),
                         !.queue = Append(@, Head(mn.pending)),
                         !.waited = @ \/ (mn.pc = "handling") ]
    /\ UNCHANGED NotMain

\* main.py 167-168: key = await key_queue.get(); handle_key(key) up to its
\* first await or its return
MainGetKey ==
    /\ mn.pc = "wait_key"
    /\ mn.queue # << >>
    /\ LET k == Head(mn.queue)
       IN  \/ /\ k = "esc"
              /\ mn' = [ mn EXCEPT !.queue = Tail(@), !.handled = Append(@, k),
                                   !.pc = "exit_sleep", !.todo = ExitProgram ]
           \/ /\ k = "other"
              /\ mn' = [ mn EXCEPT !.queue = Tail(@), !.handled = Append(@, k) ]
           \/ /\ k = "left"
              /\ mn' = [ mn EXCEPT !.queue = Tail(@), !.key = << k >>,
                                   !.pc = "handling",
                                   !.todo = HandleStateChangeProgram ]
    /\ UNCHANGED NotMain

\* the main task sends the next request of the sequence it is in
StartExchange ==
    /\ mn.pc \in {"startup", "handling", "exit_sleep"}
    /\ mn.todo # << >>
    /\ AwaitDone(mn)
    /\ mn' = [ mn EXCEPT !.in_flight = @ + 1,
                         !.cur = Head(mn.todo),
                         !.last = Head(mn.todo),
                         !.todo = Tail(@),
                         !.motion = @ \/ Head(mn.todo) \in MotionWrites ]
    /\ UNCHANGED NotMain

\* the response (or the failure) of the exchange in flight arrives and the
\* task runs up to its next await
CompleteExchange ==
    /\ MainRunning(mn)
    /\ mn.in_flight > 0
    /\ \E outcome \in Outcomes :
         LET ok == outcome = "ok"
             done == mn.todo = << >> /\ mn.in_flight = 1
             m == [ mn EXCEPT !.in_flight = @ - 1 ]
             back == [ m EXCEPT !.pc = "wait_key", !.todo = << >>,
                                !.handled = @ \o mn.key, !.key = << >> ]
         IN  IF mn.pc = "startup"
             THEN IF mn.cur = "az_write_config"
                  THEN \* command_auto_zero: the first write's result is kept
                       mn' = [ m EXCEPT !.az_write_ok = ok ]
                  ELSE IF mn.cur = "az_write_mode" /\ ~(ok /\ mn.az_write_ok)
                  THEN \* auto_zero_wait returns False unpolled
                       IF AutoZeroContinues(FALSE)
                       THEN mn' = [ m EXCEPT !.todo = << "write_max_force" >> ]
                       ELSE mn' = [ m EXCEPT !.pc = "returned", !.todo = << >> ]
                  ELSE IF mn.cur = "az_poll"
                  THEN IF AutoZeroContinues(ok)
                       THEN mn' = [ m EXCEPT !.az_true = ok ]
                       ELSE mn' = [ m EXCEPT !.pc = "returned", !.todo = << >> ]
                  ELSE \* results of set_mode, the resets and set_max_force
                       \* are not looked at (98-100, 111)
                       mn' = [ m EXCEPT !.pc = IF done THEN "wait_key" ELSE @ ]
             ELSE IF mn.pc = "handling"
             THEN IF mn.cur = "read_status" /\ ~ok
                  THEN \* return 0, 0 (main.py 59-60): a tuple, so handle_key
                       \* stores it and returns False (150-157)
                       mn' = back
                  ELSE IF mn.cur = "stream_read_status" /\ outcome = "exception"
                  THEN \* configure reads again (lib_bytemachine.py 52-56)
                       mn' = [ m EXCEPT !.todo = << "stream_read_status" >> \o @ ]
                  ELSE IF mn.cur = "stream_read_status" /\ outcome = "io_error"
                  THEN \* ModbusIOException leaves main
                       mn' = [ m EXCEPT !.pc = "raised", !.todo = << >> ]
                  ELSE IF done
                  THEN mn' = back
                  ELSE mn' = m
             ELSE mn' = m
    /\ UNCHANGED NotMain

\* main.py 171-172: break; actuator.close()
MainClose ==
    /\ mn.pc = "exit_sleep"
    /\ mn.todo = << >>
    /\ AwaitDone(mn)
    /\ mn' = [ mn EXCEPT !.pc = "closed" ]
    /\ UNCHANGED NotMain

NextMain ==
    \/ MainStart
    \/ KeyPress
    \/ LoopRunsCallback
    \/ MainGetKey
    \/ StartExchange
    \/ CompleteExchange
    \/ MainClose

SpecMain == InitMain /\ [][NextMain]_vars

MainStarted == mn.pc # "not_started"

\* C28: at most one exchange is in flight at any time, and every key pressed
\* is kept in order: handled already, being handled (by the one
\* handle_state_change that is awaiting), or waiting in the queue or in the
\* loop's callbacks until that call completes.
C28_OneExchangeKeysQueued ==
    MainStarted =>
        /\ mn.in_flight <= 1
        /\ Len(mn.key) <= 1
        /\ (mn.key # << >>) = (mn.pc \in {"handling", "raised"})
        /\ mn.pressed = mn.handled \o mn.key \o mn.queue \o mn.pending

\* C28 witness: a key that was queued while handle_state_change awaited an
\* exchange has been handled after that call completed.
C28_Witness ==
    /\ MainStarted
    /\ mn.waited
    /\ Len(mn.handled) >= 2
    /\ mn.handled[1] = "left"

\* C35: main issues a kinematic slot write or a trigger write only after
\* auto_zero_wait has returned True; when connect or the auto-zero fails the
\* program has ended without any such write.
C35_NoMotionBeforeAutoZero ==
    MainStarted =>
        /\ mn.motion => mn.az_true
        /\ mn.pc = "returned" => ~mn.motion /\ mn.handled = << >>

\* C35 witness: a slot write and a trigger write went out after the
\* auto-zero had returned True.
C35_Witness ==
    /\ MainStarted
    /\ mn.motion
    /\ mn.az_true
    /\ mn.last = "trigger_write"

\* C36: when the key loop has exited and the link is closed, the last
\* exchange issued was the write of MODE_SLEEP to the mode control register,
\* it has completed, and no exchange is issued or pending afterwards.
C36_SleepLastThenClose ==
    [][ /\ (MainStarted /\ mn'.pc = "closed")
            => /\ mn'.last = "write_mode_sleep"
               /\ mn'.in_flight = 0
               /\ mn'.todo = << >>
               /\ mn'.handled # << >>
               /\ mn'.handled[Len(mn'.handled)] = "esc"
        /\ (MainStarted /\ mn.pc = "closed") => mn' = mn ]_vars

\* C36 witness: the loop was left by escape after an arrow key had been
\* handled, and the link is closed.
C36_Witness ==
    /\ MainStarted
    /\ mn.pc = "closed"
    /\ mn.motion
    /\ mn.handled = << "left", "esc" >>

\* ------------------------------- set_kinematic_motion over all 32 slots

\* Slot writes made in one run.
MaxSlotWrites == 2

\* The slot ids of the register map (KIN_MOTION_0 .. KIN_MOTION_31).
NumSlots == 32

MotionIds == 0 .. (NumSlots - 1)

\* The kinematic slot registers, up to and including KIN_HOME_ID.
KinAddrs == KIN_MOTION_0 .. KIN_HOME_ID

\* The motor stores the values of an acknowledged write_registers at
\* addr, addr + 1, ...
StoreRegisters(r, addr, vals) ==
    [ a \in DOMAIN r |->
        IF a >= addr /\ a < addr + Len(vals) THEN vals[a - addr + 1] ELSE r[a] ]

InitSlots ==
    /\ calc = [ op |-> "slots", kin |-> [ a \in KinAddrs |-> 0 ], n |-> 0 ]
    /\ regs = [a \in AzAddr |-> 0]
    /\ pc = "idle"
    /\ hsc = HscIdle
    /\ cfg = CfgIdle
    /\ log = << >>
    /\ ncalls = 0
    /\ az = AzIdle
    /\ lnk = LnkIdle
    /\ bits = BitsIdle
    /\ frame = FrameIdle
    /\ mn = MainIdle

\* actuator.py 511-528: set_kinematic_motion(motion_id, ...), one
\* write_registers exchange
SlotsSetKinematicMotion ==
    /\ calc.n < MaxSlotWrites
    /\ \E motion_id \in MotionIds, outcome \in Outcomes :
         LET vals == SlotValues(35000 + calc.n, 2500, calc.n + 1, 1, 1, 1)
             addr == SlotAddress(motion_id)
         IN  calc' = [ op |-> "slot_write", n |-> calc.n + 1,
                       motion_id |-> motion_id, addr |-> addr, vals |-> vals,
                       ok |-> outcome = "ok", before |-> calc.kin,
                       kin |-> IF outcome = "ok"
                               THEN StoreRegisters(calc.kin, addr, vals)
                               ELSE calc.kin ]
    /\ UNCHANGED NotCalc

NextSlots == SlotsSetKinematicMotion

SpecSlots == InitSlots /\ [][NextSlots]_vars

SlotRange(motion_id) ==
    (KIN_MOTION_0 + 6 * motion_id) .. (KIN_MOTION_0 + 6 * motion_id + 5)

\* C31: an acknowledged slot write for motionId stores its six values in
\* exactly the registers KIN_MOTION_0 + 6*motionId .. + 5 and leaves every
\* other register as it was; the ranges of distinct slots 0..31 are disjoint
\* and lie within 780..971, below KIN_HOME_ID.
C31_SlotWriteFrame ==
    (calc.op = "slot_write" /\ calc.ok) =>
        /\ Len(calc.vals) = 6
        /\ \A a \in KinAddrs :
             IF a \in SlotRange(calc.motion_id)
             THEN calc.kin[a] = calc.vals[a - (KIN_MOTION_0 + 6 * calc.motion_id) + 1]
             ELSE calc.kin[a] = calc.before[a]
        /\ \A i \in MotionIds :
             /\ SlotRange(i) \subseteq 780 .. 971
             /\ \A a \in SlotRange(i) : a < KIN_HOME_ID
             /\ \A j \in MotionIds : i # j => SlotRange(i) \cap SlotRange(j) = {}
             /\ SlotRange(i) = SlotAddress(i) .. (SlotAddress(i) + SlotRegs - 1)

\* C31 witness: slot 31 was written, acknowledged, after another slot.
C31_Witness ==
    /\ calc.op = "slot_write"
    /\ calc.ok
    /\ calc.motion_id = 31
    /\ calc.n = 2
    /\ calc.kin[971] # 0
    /\ \E a \in KinAddrs : a \notin SlotRange(31) /\ calc.before[a] # 0

\* The KINEMATIC_STATUS read at the start of the current handle_state_change
\* call (its second exchange) failed.
StatusReadFailed ==
    /\ Len(log) >= 2
    /\ log[2].op = "read" /\ log[2].addr = KINEMATIC_STATUS
    /\ ~log[2].ok

\* C34: when the KINEMATIC_STATUS register read at the start of
\* handle_state_change fails, the call returns at once, having issued no
\* write exchange: no mode write, no slot write, no trigger write.
C34_FailedStatusReadWritesNothing ==
    StatusReadFailed =>
        /\ pc = "hsc_return"
        /\ Len(log) = 2
        /\ \A k \in 1 .. Len(log) : log[k].op # "write"
        /\ hsc.returns = << 0, 0 >>

\* C34 witness: the status read failed in a call that, had it gone on, would
\* have written the mode (nonzero stroke values, mode read as Sleep).
C34_Witness ==
    /\ StatusReadFailed
    /\ hsc.stroke_rate_mm_s # 0 /\ hsc.stroke_length_mm # 0
    /\ hsc.current_mode = MODE_SLEEP

\* ---------------- configure_two_point_kinematic_motion: the status loop

\* configure called directly, with main.py's stroke values and offset.
CfgLoopCall ==
    /\ pc = "idle"
    /\ ncalls = 0
    /\ \E rate \in {20, 40}, length \in {20, 50} :
         cfg' = CfgEntry(rate, length, HscStrokeStartOffsetMm, 0)
    /\ pc' = "cfg_read_status"
    /\ ncalls' = 1
    /\ UNCHANGED << regs, hsc, log >>
    /\ UNCHANGED NotMotion

\* lines 52-65 as in CfgReadStatus, with no limit on the turns of the loop:
\* failed reads are counted up to MaxStatusReads and, beyond that, only up to
\* parity, and the failed reads are not logged.
CfgLoopReadStatus ==
    /\ pc = "cfg_read_status"
    /\ \E outcome \in Outcomes :
         IF outcome = "ok"
         THEN LET active == active_motion_id(regs[KINEMATIC_STATUS])
              IN  /\ cfg' = [cfg EXCEPT
                               !.active_motion_id = active,
                               !.motion_out_id = motion_out_id(active),
                               !.motion_in_id = motion_in_id(active),
                               !.motion_to_trigger_id = motion_to_trigger_id(active),
                               !.log_start = Len(log)]
                  /\ pc' = "cfg_set_out"
         ELSE IF outcome = "exception"
         THEN /\ cfg' = [cfg EXCEPT !.failed_reads =
                           IF @ < MaxStatusReads THEN @ + 1 ELSE MaxStatusReads - 1]
              /\ pc' = "cfg_read_status"
         ELSE /\ cfg' = cfg
              /\ pc' = "raised"
    /\ UNCHANGED << regs, hsc, log, ncalls >>
    /\ UNCHANGED NotMotion

\* lines 93-94: break, return
CfgLoopReturn ==
    /\ pc = "cfg_return"
    /\ pc' = "returned"
    /\ UNCHANGED << regs, hsc, cfg, log, ncalls >>
    /\ UNCHANGED NotMotion

NextConfigure ==
    \/ CfgLoopCall
    \/ CfgLoopReadStatus
    \/ CfgSetOut
    \/ CfgSetIn
    \/ CfgTrigger
    \/ CfgLoopReturn

\* The event loop resumes the task whenever an exchange has ended, whatever
\* its outcome.
SpecConfigureFair == Init /\ [][NextConfigure]_vars /\ WF_vars(NextConfigure)

\* C32 as claimed: every configure_two_point_kinematic_motion call ends after
\* finitely many exchanges, whatever the transport does.  (While the
\* KINEMATIC_STATUS read is answered with an error response the loop reads
\* again, for ever.)
C32_ConfigureTerminates ==
    (pc = "cfg_read_status") ~> (pc \in {"returned", "raised"})

\* C33: in the poll loop of auto_zero_wait a failed mode read ends the
\* polling with False; True is produced only by a mode read that was answered
\* with a value other than MODE_AUTO_ZERO; and no exchange other than mode
\* reads, so no write, is issued once polling has started.
C33_PollFailureReturnsFalse ==
    [][ /\ (AzPollWith("exception") \/ AzPollWith("io_error"))
            => pc' = "az_return" /\ az'.returned = "False"
        /\ (az.returned # "True" /\ az'.returned = "True")
            => /\ AzPollWith("ok")
               /\ az'.mode = regs[MODE_OF_OPERATION]
               /\ az'.mode # MODE_AUTO_ZERO
        /\ pc \in {"az_poll", "az_return"} => log' = log ]_vars

\* C33 witness: auto_zero_wait is returning False after a mode read failed
\* that followed an answered one.
C33_Witness ==
    /\ AzDone
    /\ az.polls >= 2
    /\ az.mode = NoneInt
    /\ az.returned = "False"
    /\ Len(log) = 2 /\ log[1].ok /\ log[2].ok

\* ------------------------------- main.py: handle_key and the stroke values

ArrowKeys == {"left", "right", "up", "down"}

\* Mutant: the stroke length is raised without the upper limit.
KeyStrokeLength_unlimited(key, length) ==
    IF key = "left"
    THEN (IF length - STROKE_LENGTH_INCREMENT_MM > MIN_STROKE_LENGTH_MM
          THEN length - STROKE_LENGTH_INCREMENT_MM ELSE MIN_STROKE_LENGTH_MM)
    ELSE IF key = "right" THEN length + STROKE_LENGTH_INCREMENT_MM
    ELSE length

\* main.py 120-131: STROKE_LENGTH_MM after the key
KeyStrokeLength(key, length) ==
    IF key = "left"
    THEN (IF length - STROKE_LENGTH_INCREMENT_MM > MIN_STROKE_LENGTH_MM
          THEN length - STROKE_LENGTH_INCREMENT_MM ELSE MIN_STROKE_LENGTH_MM)
    ELSE IF key = "right"
    THEN (IF length + STROKE_LENGTH_INCREMENT_MM < MAX_STROKE_LENGTH_MM
          THEN length + STROKE_LENGTH_INCREMENT_MM ELSE MAX_STROKE_LENGTH_MM)
    ELSE length

\* main.py 132-143: STROKE_RATE_MM_S after the key
KeyStrokeRate(key, rate) ==
    IF key = "up"
    THEN (IF rate + STROKE_RATE_INCREMENT_MM_S < MAX_STROKE_RATE_MM_S
          THEN rate + STROKE_RATE_INCREMENT_MM_S ELSE MAX_STROKE_RATE_MM_S)
    ELSE IF key = "down"
    THEN (IF rate - STROKE_RATE_INCREMENT_MM_S > MIN_STROKE_RATE_MM_S
          THEN rate - STROKE_RATE_INCREMENT_MM_S ELSE MIN_STROKE_RATE_MM_S)
    ELSE rate

\* How a handle_state_change call goes: every exchange answered; the
\* KINEMATIC_STATUS register read failed (return 0, 0); some other exchange
\* failed (the call goes on); configure raised a ModbusIOException.
HandleOutcomes == {"ok", "status_read_failed", "other_failed", "raised"}

\* main.py 12-13: STROKE_LENGTH_MM = 0, STROKE_RATE_MM_S = 0
InitKeys ==
    /\ mn = [ pc |-> "keys", op |-> "none", key |-> "none",
              STROKE_LENGTH_MM |-> 0, STROKE_RATE_MM_S |-> 0,
              configured |-> FALSE, cfg_rate |-> 0, cfg_length |-> 0,
              ok |-> FALSE ]
    /\ regs = [a \in AzAddr |-> 0]
    /\ pc = "idle"
    /\ hsc = HscIdle
    /\ cfg = CfgIdle
    /\ log = << >>
    /\ ncalls = 0
    /\ az = AzIdle
    /\ lnk = LnkIdle
    /\ bits = BitsIdle
    /\ calc = CalcIdle
    /\ frame = FrameIdle

\* main.py 117-157: handle_key(key) for an arrow key, handle_state_change
\* (54-86) included
KeysHandleKey ==
    /\ mn.op # "raised"
    /\ \E key \in ArrowKeys, outcome \in HandleOutcomes :
         LET length == KeyStrokeLength(key, mn.STROKE_LENGTH_MM)
             rate == KeyStrokeRate(key, mn.STROKE_RATE_MM_S)
             configured == outcome # "status_read_failed"
             cfg_rate == IF configured THEN result_stroke_rate_mm_s(rate) ELSE 0
             cfg_length == IF configured THEN result_stroke_length_mm(length) ELSE 0
         IN  mn' = [ pc |-> "keys",
                     op |-> IF outcome = "raised" THEN "raised" ELSE "handled",
                     key |-> key,
                     STROKE_LENGTH_MM |->
                         IF outcome = "raised" THEN length
                         ELSE IF outcome = "status_read_failed" THEN 0
                         ELSE result_stroke_length_mm(length),
                     STROKE_RATE_MM_S |->
                         IF outcome = "raised" THEN rate
                         ELSE IF outcome = "status_read_failed" THEN 0
                         ELSE result_stroke_rate_mm_s(rate),
                     configured |-> configured,
                     cfg_rate |-> cfg_rate,
                     cfg_length |-> cfg_length,
                     ok |-> outcome = "ok" ]
    /\ UNCHANGED NotMain

NextKeys == KeysHandleKey

SpecKeys == InitKeys /\ [][NextKeys]_vars

MwsRequest == frame.kind = "motor_write_stream" /\ frame.dir = "request"

\* C38: an encoded MotorWriteStream request is 7 bytes for width 1 and for
\* width 2: the address (u16), the width (u8) and four data bytes; for width
\* 1 the first two data bytes are zero and the data is in the last two; and
\* an object constructed for the same width decodes address, width and data
\* back from it.
C38_WriteRequestFixedLayout ==
    /\ (frame.op \in {"encoded", "decoded"} /\ MwsRequest) =>
         /\ Len(frame.bytes) = 7
         /\ frame.bytes[1] * 256 + frame.bytes[2] = frame.fields[1].lo
         /\ frame.bytes[3] = frame.fields[2].lo
         /\ frame.fields[2] = W(0, 1) =>
              /\ frame.bytes[4] = 0 /\ frame.bytes[5] = 0
              /\ frame.bytes[6] * 256 + frame.bytes[7] = frame.fields[3].lo
         /\ frame.fields[2] = W(0, 2) =>
              /\ frame.bytes[4] * 256 + frame.bytes[5] = frame.fields[3].hi
              /\ frame.bytes[6] * 256 + frame.bytes[7] = frame.fields[3].lo
    /\ (frame.op = "decoded" /\ MwsRequest /\ frame.fresh[2] = frame.fields[2]) =>
         /\ frame.raised = "none"
         /\ frame.decoded = frame.fields

\* C38 witness: a width-1 request with data 65535 was decoded by another
\* object constructed for width 1.
C38_Witness ==
    /\ frame.op = "decoded"
    /\ MwsRequest
    /\ frame.fields = << W(0, 140), W(0, 1), W(0, Pow16 - 1) >>
    /\ frame.fresh = << W(0, 140), W(0, 1), W(0, 5) >>
    /\ frame.decoded = frame.fields

\* --------------------------- actuator.py: the operations of two writes

TwoWriteOps == {"command_auto_zero", "set_position_tuning", "reset_user_options"}

\* Arguments: (max_force_n, exit_to_mode) of command_auto_zero, (proportional
\* gain, saturation) of set_position_tuning with the other gains 0.
TwoWriteArgs(op) ==
    IF op = "command_auto_zero" THEN MaxForces \X ExitModes
    ELSE IF op = "set_position_tuning" THEN {0, 200, Pow16 + 7} \X {0, 10000, 2 * Pow16 + 3}
    ELSE {<< 0, 0 >>}

\* The first write of each operation (actuator.py 381-384, 441-444, 657-667).
FirstWrite(op, args) ==
    IF op = "command_auto_zero"
    THEN [ addr |-> ZERO_MODE,
           vals |-> << AUTO_ZERO_MODE_ENABLED, args[1], args[2] >> ]
    ELSE IF op = "set_position_tuning"
    THEN [ addr |-> PC_PGAIN,
           vals |-> << get_lsb(ToInt32(args[1])), get_lsb(0), get_lsb(0), get_lsb(0),
                       get_lsb(ToInt32(args[2])), get_msb(ToInt32(args[2])) >> ]
    ELSE [ addr |-> CTRL_REG_4, vals |-> << CTRL_REG_4_SET_DEFAULT_MOTOR_USER_OPTS >> ]

\* The second write (actuator.py 385-391, 445-450, 668-674).
SecondWrite(op) ==
    IF op = "command_auto_zero"
    THEN [ addr |-> CTRL_REG_3, vals |-> << MODE_AUTO_ZERO >> ]
    ELSE IF op = "set_position_tuning"
    THEN [ addr |-> CTRL_REG_1, vals |-> << CTRL_REG_1_SET_POSITION_CONTROLLER_GAIN >> ]
    ELSE [ addr |-> CTRL_REG_4, vals |-> << CTRL_REG_4_SET_DEFAULT_MODBUS_USER_OPTS >> ]

InitTwoWrites ==
    /\ lnk = [ op |-> "none", step |-> "idle", args |-> << 0, 0 >>,
               write_successful |-> "None", returns |-> "None", sent |-> << >> ]
    /\ regs = [a \in AzAddr |-> 0]
    /\ pc = "idle"
    /\ hsc = HscIdle
    /\ cfg = CfgIdle
    /\ log = << >>
    /\ ncalls = 0
    /\ az = AzIdle
    /\ bits = BitsIdle
    /\ calc = CalcIdle
    /\ frame = FrameIdle
    /\ mn = MainIdle

\* A caller invokes one of the three operations.
TwoWriteCall ==
    /\ lnk.step \in {"idle", "returned"}
    /\ \E op \in TwoWriteOps : \E args \in TwoWriteArgs(op) :
         lnk' = [ op |-> op, step |-> "first", args |-> args,
                  write_successful |-> "None", returns |-> "None", sent |-> << >> ]
    /\ UNCHANGED NotLink
    /\ UNCHANGED << regs, ncalls >>

\* write_successful = await self.write_register(s)(...)
TwoWriteFirst ==
    /\ lnk.step = "first"
    /\ \E outcome \in Outcomes :
         LET w == FirstWrite(lnk.op, lnk.args)
         IN  lnk' = [ lnk EXCEPT
                        !.step = "second",
                        !.write_successful = WriteResult(outcome),
                        !.sent = Append(@, [ addr |-> w.addr, vals |-> w.vals,
                                             ok |-> outcome = "ok" ]) ]
    /\ UNCHANGED NotLink
    /\ UNCHANGED << regs, ncalls >>

\* return await self.write_register(...) & write_successful
TwoWriteSecond ==
    /\ lnk.step = "second"
    /\ \E outcome \in Outcomes :
         LET w == SecondWrite(lnk.op)
         IN  lnk' = [ lnk EXCEPT
                        !.step = "returned",
                        !.returns = BoolAnd(WriteResult(outcome), lnk.write_successful),
                        !.sent = Append(@, [ addr |-> w.addr, vals |-> w.vals,
                                             ok |-> outcome = "ok" ]) ]
    /\ UNCHANGED NotLink
    /\ UNCHANGED << regs, ncalls >>

NextTwoWrites ==
    \/ TwoWriteCall
    \/ TwoWriteFirst
    \/ TwoWriteSecond

SpecTwoWrites == InitTwoWrites /\ [][NextTwoWrites]_vars

\* C39: command_auto_zero, set_position_tuning and reset_user_options return
\* True exactly when both of their writes were acknowledged; the second write
\* is issued whatever the first one answered; and each call makes exactly its
\* two writes, none of them twice.
C39_TwoWritesBothCounted ==
    /\ lnk.step = "second" => Len(lnk.sent) = 1
    /\ lnk.step = "returned" =>
         /\ Len(lnk.sent) = 2
         /\ (lnk.returns = "True") = (lnk.sent[1].ok /\ lnk.sent[2].ok)
         /\ lnk.returns \in {"True", "False"}
         /\ << lnk.sent[1].addr, lnk.sent[1].vals >> # << lnk.sent[2].addr, lnk.sent[2].vals >>
         /\ lnk.sent[1].addr = FirstWrite(lnk.op, lnk.args).addr
         /\ lnk.sent[2].addr = SecondWrite(lnk.op).addr

\* C39 witness: set_position_tuning returned False after its first write
\* failed and its second write was issued and acknowledged.
C39_Witness ==
    /\ lnk.step = "returned"
    /\ lnk.op = "set_position_tuning"
    /\ ~lnk.sent[1].ok
    /\ lnk.sent[2].ok
    /\ lnk.sent[2].addr = CTRL_REG_1
    /\ lnk.returns = "False"

====
